---- MODULE Spec2Model ----
(***************************************************************************)
(* A model of the retrieval core of the slide generator:                   *)
(*   - ChunkingEmbeddingService (src/src/backend/chunking_embedding.py):   *)
(*     chunk_text / _split_text_into_chunks, and the vector store          *)
(*     (create_embeddings, search_similar_chunks, save/load_vector_store); *)
(*   - RAGSystem (src/src/backend/rag_system.py):                          *)
(*     generate_comprehensive_bullets and the per-section generation;      *)
(*   - RAGSystem of src/src/rag_system.py: its novelty filters;            *)
(*   - OutlineGenerator.generate_outline (backend/outline_generator.py);   *)
(*   - PDFProcessingService (backend/processing_service.py): process_pdf   *)
(*     and regenerate_content_with_focus on one service.                   *)
(* Texts are sequences of one-character strings; Python's 0-based indices  *)
(* are kept, so text[i] of the source is text[i + 1] here.                 *)
(***************************************************************************)
EXTENDS Integers, Sequences, FiniteSets, TLC

VARIABLES
    \* ---- chunk_text (chunking_embedding.py:32-126) ----
    pdf_structure,   \* the PDFStructure argument: [sections, paragraphs]
    chunk_size,      \* argument of chunk_text
    overlap,         \* argument of chunk_text
    pages_content,   \* dict page -> list of text units (line 38)
    todo,            \* the pages of sorted(pages_content.keys()) not yet processed
    page_num,        \* the loop variable of line 53
    page_text,       \* line 54
    start,           \* _split_text_into_chunks: start (line 95)
    page_chunks,     \* _split_text_into_chunks: chunks (line 94), with each chunk's window
    chunks,          \* chunk_text: chunks (line 34)
    chunk_id,        \* chunk_text: chunk_id (line 35)
    visited,         \* history: the values of start the running window loop has had
    pc,              \* where chunk_text stands
    \* ---- the vector store (chunking_embedding.py:129-223) ----
    vector_store,    \* self.vector_store: [initialised, index, chunks]
    disk,            \* the files <path>.index and <path>.chunks, per path
    ret,             \* the last call on the service and what it returned or raised
    \* ---- RAGSystem (rag_system.py) ----
    narrative,       \* self.narrative: [set, sections]
    outline_items,   \* generate_comprehensive_bullets: the outline_items argument
    item_pos,        \* how many outline items the loop of line 718 has processed
    all_seen_bullets,     \* self.all_seen_bullets
    is_research_section,  \* self._is_research_section
    results,         \* generate_comprehensive_bullets: results (line 715)
    rag_pc,          \* where generate_comprehensive_bullets stands
    section_log,     \* per processed outline item: its query, search hits, context, LLM call
    \* ---- RAGSystem of src/src/rag_system.py (the novelty filter) ----
    all_generated_texts,    \* self.all_generated_texts
    seen_bullets,           \* self.all_seen_bullets of src/src/rag_system.py
    covered_ngrams,         \* self.covered_ngrams: n-gram -> count
    semantic_fingerprints,  \* self.semantic_fingerprints
    paragraph_results,      \* generate_comprehensive_bullets: results (line 492)
    nv_outline,      \* generate_comprehensive_bullets: the titles of outline_items
    nv_pos,          \* how many outline items the loop of line 494 has processed
    nv_pc,           \* where generate_comprehensive_bullets stands
    run_no,          \* history: how many runs have been started
    accepted,        \* history: the paragraphs accepted so far in this run, in order
    earlier,         \* history: the paragraphs accepted in earlier runs
    last_section,    \* history: what the filters of the last processed item saw and kept
    \* ---- OutlineGenerator.generate_outline (outline_generator.py:228-406) ----
    og_chunks,       \* the chunks argument: per chunk its page and the topics its text matches
    max_sections,    \* the max_sections argument
    og_pos,          \* the chunk the loop of line 352 is at
    topic_candidates,    \* topic_candidates, in the order the topics were put in
    ordered_topics,  \* ordered_topics
    generated_outline,   \* the outline_items of generate_outline
    og_pc,           \* where generate_outline stands
    \* ---- PDFProcessingService (processing_service.py) ----
    tone,            \* self.rag_system.tone
    svc_op,          \* the request the service is serving, or has served last
    svc_request,     \* chunk_size and overlap of that request
    chunk_call,      \* the chunk_size and overlap handed to chunk_text
    served           \* history: how many requests the service has taken

chunkVars == <<pdf_structure, chunk_size, overlap, pages_content, todo, page_num,
               page_text, start, page_chunks, chunks, chunk_id, visited, pc>>

storeVars == <<vector_store, disk, ret>>

ragVars == <<narrative, outline_items, item_pos, all_seen_bullets, is_research_section,
             results, rag_pc, section_log>>

noveltyVars == <<all_generated_texts, seen_bullets, covered_ngrams, semantic_fingerprints,
                 paragraph_results, nv_outline, nv_pos, nv_pc, run_no, accepted, earlier,
                 last_section>>

outlineVars == <<og_chunks, max_sections, og_pos, topic_candidates, ordered_topics,
                 generated_outline, og_pc>>

serviceVars == <<tone, svc_op, svc_request, chunk_call, served>>

\* what chunk_text leaves alone
notChunkVars == <<storeVars, ragVars, noveltyVars, outlineVars, serviceVars>>

\* what the vector store operations leave alone
notStoreVars == <<chunkVars, ragVars, noveltyVars, outlineVars, serviceVars>>

vars == <<chunkVars, storeVars, ragVars, noveltyVars, outlineVars, serviceVars>>

----------------------------------------------------------------------------
(* Bounds of the model *)

\* the longest page text that is enumerated character by character
MaxTextLen == 4
\* the largest chunk_size (and overlap) tried on the enumerated texts
MaxChunkSize == 3
\* the longest page text of letters and full stops only
MaxLongLen == 8

(* Program constants *)

\* "look for period in last 100 chars of chunk"
SearchWindow == 100

----------------------------------------------------------------------------
(* The parts of the state a specification does not exercise stay as
   constructed *)

\* no chunk_text call is under way
ChunkIdle ==
    /\ pdf_structure = [sections |-> <<>>, paragraphs |-> <<>>]
    /\ chunk_size = 2000
    /\ overlap = 200
    /\ pages_content = <<>>
    /\ todo = <<>>
    /\ page_num = 0
    /\ page_text = <<>>
    /\ start = 0
    /\ page_chunks = <<>>
    /\ chunks = <<>>
    /\ chunk_id = 0
    /\ visited = {}
    /\ pc = "idle"

\* ChunkingEmbeddingService.__init__ (line 29): no vector store, nothing saved
StoreIdle ==
    /\ vector_store = [initialised |-> FALSE, index |-> <<>>, chunks |-> <<>>]
    /\ disk = [p \in {"stores/doc", "doc"} |->
                  [has_index |-> FALSE, index |-> <<>>, has_chunks |-> FALSE, chunks |-> <<>>]]
    /\ ret = [op |-> "init"]

\* RAGSystem.__init__ (lines 16-22): no narrative, nothing generated
RagIdle ==
    /\ narrative = [set |-> FALSE, sections |-> <<>>]
    /\ outline_items = <<>>
    /\ item_pos = 0
    /\ all_seen_bullets = <<>>
    /\ is_research_section = FALSE
    /\ results = <<>>
    /\ rag_pc = "idle"
    /\ section_log = <<>>

\* no outline item has been processed in this run
NoSection ==
    [found |-> FALSE, response |-> <<>>, generated |-> <<>>, counter |-> <<>>,
     fingerprints |-> <<>>, filtered |-> <<>>, paragraphs |-> <<>>]

\* RAGSystem.__init__ of src/src/rag_system.py (lines 15-21)
NoveltyIdle ==
    /\ all_generated_texts = <<>>
    /\ seen_bullets = <<>>
    /\ covered_ngrams = <<>>
    /\ semantic_fingerprints = <<>>
    /\ paragraph_results = <<>>
    /\ nv_outline = <<>>
    /\ nv_pos = 0
    /\ nv_pc = "idle"
    /\ run_no = 0
    /\ accepted = <<>>
    /\ earlier = {}
    /\ last_section = NoSection

\* generate_outline has not been called
OutlineIdle ==
    /\ og_chunks = <<>>
    /\ max_sections = 0
    /\ og_pos = 0
    /\ topic_candidates = <<>>
    /\ ordered_topics = <<>>
    /\ generated_outline = <<>>
    /\ og_pc = "idle"

\* PDFProcessingService.__init__ (lines 23-35): no request has been taken
ServiceIdle ==
    /\ tone = "None"
    /\ svc_op = "none"
    /\ svc_request = [chunk_size |-> 0, overlap |-> 0]
    /\ chunk_call = [chunk_size |-> 0, overlap |-> 0]
    /\ served = 0

----------------------------------------------------------------------------
(* Python built-ins used by the chunker *)

Max(a, b) == IF a >= b THEN a ELSE b
Min(a, b) == IF a <= b THEN a ELSE b
SetMax(S) == CHOOSE x \in S : \A y \in S : y <= x
SetMin(S) == CHOOSE x \in S : \A y \in S : x <= y

\* a slice or search index as Python normalises it for a sequence of length n
PyIndex(i, n) == IF i < 0 THEN Max(i + n, 0) ELSE Min(i, n)

\* text[a:b]
PySlice(text, a, b) ==
    LET lo == PyIndex(a, Len(text))
        hi == PyIndex(b, Len(text))
    IN  IF lo >= hi THEN <<>> ELSE SubSeq(text, lo + 1, hi)

\* text.rfind(ch, a, b): the highest index in [a, b) holding ch, or -1
RFind(text, ch, a, b) ==
    LET lo == PyIndex(a, Len(text))
        hi == PyIndex(b, Len(text))
        hits == {i \in lo..(hi - 1) : text[i + 1] = ch}
    IN  IF hits = {} THEN -1 ELSE SetMax(hits)

IsSpace(c) == c \in {" ", "\n"}

\* str.lstrip(): a run of whitespace is dropped a block at a time, then one
\* character at a time (the same result, with a recursion that stays shallow)
RECURSIVE LStrip(_)
LStrip(s) ==
    LET block == Min(64, Len(s))
    IN  IF s = <<>> \/ ~IsSpace(Head(s)) THEN s
        ELSE IF \A i \in 1..block : IsSpace(s[i])
             THEN LStrip(SubSeq(s, block + 1, Len(s)))
             ELSE LStrip(Tail(s))

\* str.rstrip()
RECURSIVE RStrip(_)
RStrip(s) ==
    LET block == Min(64, Len(s))
    IN  IF s = <<>> \/ ~IsSpace(s[Len(s)]) THEN s
        ELSE IF \A i \in (Len(s) - block + 1)..Len(s) : IsSpace(s[i])
             THEN RStrip(SubSeq(s, 1, Len(s) - block))
             ELSE RStrip(SubSeq(s, 1, Len(s) - 1))

\* str.strip()
Strip(s) == RStrip(LStrip(s))

\* " ".join(parts)
RECURSIVE Join(_)
Join(parts) ==
    IF parts = <<>> THEN <<>>
    ELSE IF Len(parts) = 1 THEN parts[1]
    ELSE parts[1] \o <<" ">> \o Join(Tail(parts))

\* sorted(S) for a set of integers
RECURSIVE Sorted(_)
Sorted(S) == IF S = {} THEN <<>> ELSE <<SetMin(S)>> \o Sorted(S \ {SetMin(S)})

----------------------------------------------------------------------------
(* chunk_text: grouping the content by page (lines 37-50) *)

RECURSIVE GroupSections(_, _)
GroupSections(sections, acc) ==
    IF sections = <<>> THEN acc
    ELSE LET s == Head(sections)
             cur == IF s.page \in DOMAIN acc THEN acc[s.page] ELSE <<>>
         IN  GroupSections(Tail(sections),
                 [p \in (DOMAIN acc) \cup {s.page} |->
                     IF p = s.page THEN cur \o s.content ELSE acc[p]])

\* every paragraph goes to page 1 ("default page if not specified")
GroupParagraphs(paragraphs, acc) ==
    IF paragraphs = <<>> THEN acc
    ELSE [p \in (DOMAIN acc) \cup {1} |->
             IF p = 1 THEN (IF 1 \in DOMAIN acc THEN acc[1] ELSE <<>>) \o paragraphs
             ELSE acc[p]]

PagesContent(pdf) == GroupParagraphs(pdf.paragraphs, GroupSections(pdf.sections, <<>>))

----------------------------------------------------------------------------
(* _split_text_into_chunks: one window (lines 99-114) *)

\* the end of the window that starts at s
WindowEnd(text, s, size) ==
    LET end == s + size
        search_start == Max(s + size - SearchWindow, s)
        sentence_end == RFind(text, ".", search_start, end)
        bang == RFind(text, "!", search_start, end)
        quest == RFind(text, "?", search_start, end)
        newline == RFind(text, "\n", search_start, end)
    IN  IF end < Len(text)
        THEN IF sentence_end > s THEN sentence_end + 1
             ELSE IF bang > s THEN bang + 1
             ELSE IF quest > s THEN quest + 1
             ELSE IF newline > s THEN newline + 1
             ELSE end
        ELSE end

\* a faulty variant of line 122: the next window starts where the last one
\* ended, without overlap
NextStartNoOverlap(end, ovl) == end

\* the next value of start (line 122)
NextStart(end, ovl) == end - ovl

\* a faulty variant of lines 67-82: chunk_id is not advanced within a page
MakeChunksSameId(pcs, page, first_id) ==
    [i \in 1..Len(pcs) |->
        [id |-> first_id, text |-> pcs[i].text, page_number |-> page,
         chunk_index |-> i - 1, start |-> pcs[i].start, end |-> pcs[i].end]]

\* the Chunk objects of one page (lines 67-82); start/end keep the window of the text
MakeChunks(pcs, page, first_id) ==
    [i \in 1..Len(pcs) |->
        [id |-> first_id + (i - 1), text |-> pcs[i].text, page_number |-> page,
         chunk_index |-> i - 1, start |-> pcs[i].start, end |-> pcs[i].end]]

----------------------------------------------------------------------------
(* The inputs chunk_text is run on *)

Alphabet == {"a", ".", "!", "\n", " "}

\* every text of at most n characters
Texts(n) == UNION {[1..k -> Alphabet] : k \in 0..n}

\* a text of n characters: "a" everywhere but at the 0-based positions of dots
\* ("." there) and of spaces (" " there)
Filled(n, dots, spaces) ==
    [i \in 1..n |-> IF (i - 1) \in dots THEN "."
                    ELSE IF (i - 1) \in spaces THEN " " ELSE "a"]

OnePage(t) == [sections |-> <<[page |-> 1, content |-> <<t>>]>>, paragraphs |-> <<>>]

\* one page holding one text, every text and every (chunk_size, overlap) in the bounds
SingleTextInputs ==
    {[pdf |-> OnePage(t), size |-> cs, ovl |-> ov] :
        t \in Texts(MaxTextLen), cs \in 1..MaxChunkSize, ov \in 0..MaxChunkSize}

\* one page holding one longer text of letters and full stops, under every valid
\* (chunk_size, overlap) that sends it through the window loop
LongTextInputs ==
    {[pdf |-> OnePage(t), size |-> cs, ovl |-> ov] :
        t \in UNION {[1..k -> {"a", "."}] : k \in (MaxTextLen + 1)..MaxLongLen},
        cs \in 1..(MaxLongLen - 1), ov \in 0..(MaxLongLen - 2)}

Unit1 == <<"a", ".">>
Unit2 == <<" ">>
Unit3 == <<"a", "a", "!", "a">>
Contents == {<<>>, <<Unit1>>, <<Unit2>>, <<Unit3, Unit1>>}
MaxPage == 2
SectionSet == {[page |-> p, content |-> c] : p \in 1..MaxPage, c \in Contents}

\* documents of up to two sections on pages 1..MaxPage, with or without paragraphs
MultiPageInputs ==
    {[pdf |-> [sections |-> ss, paragraphs |-> ps], size |-> cs, ovl |-> ov] :
        ss \in {<<>>} \cup {<<a>> : a \in SectionSet}
                 \cup {<<a, b>> : a \in SectionSet, b \in SectionSet},
        ps \in {<<>>, <<Unit1>>},
        cs \in 1..MaxChunkSize, ov \in 0..MaxChunkSize}

\* the 3-page scenario: 50, 3000 and 50 characters, chunk_size=2000, overlap=200,
\* page 2 with no sentence terminator or with one "." at a chosen offset, and
\* with or without a blank tail
ScenarioDots == {{}, {1500}, {1899}, {1900}, {1950}, {1998}, {1999}, {2000}}
ScenarioSpaces == {{}, 1700..2999, 0..2100}
ScenarioInputs ==
    {[pdf |-> [sections |-> <<[page |-> 1, content |-> <<Filled(50, {}, {})>>],
                              [page |-> 2, content |-> <<Filled(3000, d, w)>>],
                              [page |-> 3, content |-> <<Filled(50, {}, {})>>]>>,
               paragraphs |-> <<>>],
      size |-> 2000, ovl |-> 200] : d \in ScenarioDots, w \in ScenarioSpaces}

\* PDFParser.extract_text_and_structure (pdf_parser.py, lines 41-90) over the
\* lines of the pages, from the k-th line on: a line is [page, header, text],
\* header telling whether _is_section_header holds of the stripped line
RECURSIVE ExtractLines(_, _, _, _, _)
ExtractLines(lines, k, sections, current_section, text_content) ==
    LET closed == IF current_section.open /\ current_section.content # <<>>
                  THEN Append(sections, [page |-> current_section.page,
                                         content |-> current_section.content])
                  ELSE sections
    IN  IF k > Len(lines) THEN [sections |-> closed, paragraphs |-> text_content]
        ELSE LET line == Strip(lines[k].text)
             IN  IF line = <<>>
                 THEN ExtractLines(lines, k + 1, sections, current_section, text_content)
                 ELSE IF lines[k].header
                 THEN ExtractLines(lines, k + 1, closed,
                                   [open |-> TRUE, page |-> lines[k].page, content |-> <<>>],
                                   text_content)
                 ELSE ExtractLines(lines, k + 1, sections,
                                   IF current_section.open
                                   THEN [current_section EXCEPT
                                            !.content = Append(current_section.content, line)]
                                   ELSE current_section,
                                   Append(text_content, line))

ExtractTextAndStructure(lines) ==
    ExtractLines(lines, 1, <<>>, [open |-> FALSE, page |-> 0, content |-> <<>>], <<>>)

\* the letter the text lines of a page are written in
PageLetter(p) == IF p = 1 THEN "a" ELSE "b"

\* the lines of one page: nothing, a text line, a header, a header and a text
\* line, or a text line between blanks
PageLines(p) ==
    LET text == [page |-> p, header |-> FALSE, text |-> <<PageLetter(p), ".">>]
        padded == [page |-> p, header |-> FALSE, text |-> <<" ", PageLetter(p), ".", " ">>]
        blank == [page |-> p, header |-> FALSE, text |-> <<" ">>]
        heading == [page |-> p, header |-> TRUE, text |-> <<PageLetter(p)>>]
    IN  {<<>>, <<text>>, <<heading>>, <<heading, text>>, <<blank, padded>>,
         <<heading, text, text>>}

\* the documents the parser reads: two pages
Documents ==
    {d[1] \o d[2] : d \in PageLines(1) \X PageLines(2)}

\* what the parser hands to chunk_text, chunked with the default chunk_size and
\* overlap or with small ones
ParsedInputs ==
    {[pdf |-> ExtractTextAndStructure(d), size |-> c[1], ovl |-> c[2]] :
        d \in Documents, c \in {<<2000, 200>>, <<MaxChunkSize, 1>>}}

Inputs ==
    SingleTextInputs
        \cup {in \in LongTextInputs : in.ovl < in.size}
        \cup MultiPageInputs
        \cup ScenarioInputs
        \cup ParsedInputs

----------------------------------------------------------------------------
(* chunk_text as a state machine *)

Init ==
    \E in \in Inputs :
        /\ pdf_structure = in.pdf
        /\ chunk_size = in.size
        /\ overlap = in.ovl
        /\ pages_content = <<>>
        /\ todo = <<>>
        /\ page_num = 0
        /\ page_text = <<>>
        /\ start = 0
        /\ page_chunks = <<>>
        /\ chunks = <<>>
        /\ chunk_id = 0
        /\ visited = {}
        /\ pc = "call"
        /\ StoreIdle
    /\ RagIdle
    /\ NoveltyIdle
    /\ OutlineIdle
    /\ ServiceIdle

\* lines 34-53: group the content by page, sort the pages
GroupByPage ==
    /\ pc = "call"
    /\ pages_content' = PagesContent(pdf_structure)
    /\ todo' = Sorted(DOMAIN PagesContent(pdf_structure))
    /\ chunks' = <<>>
    /\ chunk_id' = 0
    /\ pc' = "pages"
    /\ UNCHANGED notChunkVars
    /\ UNCHANGED <<pdf_structure, chunk_size, overlap, page_num, page_text, start,
                   page_chunks, visited>>

\* lines 54-57: a page whose text is blank gives no chunk
SkipBlankPage ==
    /\ pc = "pages" /\ todo # <<>>
    /\ Strip(Join(pages_content[Head(todo)])) = <<>>
    /\ page_num' = Head(todo)
    /\ todo' = Tail(todo)
    /\ page_text' = Join(pages_content[Head(todo)])
    /\ UNCHANGED notChunkVars
    /\ UNCHANGED <<pdf_structure, chunk_size, overlap, pages_content, start,
                   page_chunks, chunks, chunk_id, visited, pc>>

\* lines 91-92: a page text no longer than chunk_size is returned whole
SingleChunk ==
    /\ pc = "pages" /\ todo # <<>>
    /\ Strip(Join(pages_content[Head(todo)])) # <<>>
    /\ Len(Join(pages_content[Head(todo)])) <= chunk_size
    /\ page_num' = Head(todo)
    /\ todo' = Tail(todo)
    /\ page_text' = Join(pages_content[Head(todo)])
    /\ page_chunks' = <<[text |-> page_text', start |-> 0, end |-> Len(page_text')]>>
    /\ pc' = "emit"
    /\ UNCHANGED notChunkVars
    /\ UNCHANGED <<pdf_structure, chunk_size, overlap, pages_content, start, chunks,
                   chunk_id, visited>>

\* lines 94-95: a longer page text enters the window loop
BeginSplit ==
    /\ pc = "pages" /\ todo # <<>>
    /\ Strip(Join(pages_content[Head(todo)])) # <<>>
    /\ Len(Join(pages_content[Head(todo)])) > chunk_size
    /\ page_num' = Head(todo)
    /\ todo' = Tail(todo)
    /\ page_text' = Join(pages_content[Head(todo)])
    /\ page_chunks' = <<>>
    /\ start' = 0
    /\ visited' = {}
    /\ pc' = "split"
    /\ UNCHANGED notChunkVars
    /\ UNCHANGED <<pdf_structure, chunk_size, overlap, pages_content, chunks, chunk_id>>

\* lines 98-124: one pass of the window loop
SplitStep ==
    /\ pc = "split" /\ start \notin visited
    /\ LET end == WindowEnd(page_text, start, chunk_size)
           chunk == Strip(PySlice(page_text, start, end))
       IN  /\ page_chunks' = IF chunk # <<>>
                             THEN Append(page_chunks,
                                         [text |-> chunk, start |-> start, end |-> end])
                             ELSE page_chunks
           /\ start' = NextStart(end, overlap)
           /\ pc' = IF NextStart(end, overlap) >= Len(page_text) THEN "emit" ELSE "split"
    /\ visited' = visited \cup {start}
    /\ UNCHANGED notChunkVars
    /\ UNCHANGED <<pdf_structure, chunk_size, overlap, pages_content, todo, page_num,
                   page_text, chunks, chunk_id>>

\* The loop body is a function of start alone: once start takes a value it has
\* had, the loop repeats the same windows for ever (until the growing list
\* exhausts memory). The model stops following it there.
SplitRepeats ==
    /\ pc = "split" /\ start \in visited
    /\ pc' = "hang"
    /\ UNCHANGED notChunkVars
    /\ UNCHANGED <<pdf_structure, chunk_size, overlap, pages_content, todo, page_num,
                   page_text, start, page_chunks, chunks, chunk_id, visited>>

\* lines 67-82: the page's Chunk objects
EmitPage ==
    /\ pc = "emit"
    /\ chunks' = chunks \o MakeChunks(page_chunks, page_num, chunk_id)
    /\ chunk_id' = chunk_id + Len(page_chunks)
    /\ pc' = "pages"
    /\ UNCHANGED notChunkVars
    /\ UNCHANGED <<pdf_structure, chunk_size, overlap, pages_content, todo, page_num,
                   page_text, start, page_chunks, visited>>

\* lines 84-85: the log line divides by len(pages_content), then chunks is returned
Return ==
    /\ pc = "pages" /\ todo = <<>>
    /\ pc' = IF DOMAIN pages_content = {} THEN "ZeroDivisionError" ELSE "done"
    /\ UNCHANGED notChunkVars
    /\ UNCHANGED <<pdf_structure, chunk_size, overlap, pages_content, todo, page_num,
                   page_text, start, page_chunks, chunks, chunk_id, visited>>

Next ==
    \/ GroupByPage
    \/ SkipBlankPage
    \/ SingleChunk
    \/ BeginSplit
    \/ SplitStep
    \/ SplitRepeats
    \/ EmitPage
    \/ Return

Spec == Init /\ [][Next]_vars

----------------------------------------------------------------------------
(* Claims about the chunker *)

\* the configurations the chunker's contract allows
ValidConfig == chunk_size > 0 /\ 0 <= overlap /\ overlap < chunk_size

\* character index i of page_text lies in the slice of a chunk the split produced
Covered(i) ==
    \E k \in 1..Len(page_chunks) :
        /\ PyIndex(page_chunks[k].start, Len(page_text)) <= i
        /\ i < PyIndex(page_chunks[k].end, Len(page_text))

\* _split_text_into_chunks has returned for the current page
SplitReturned == pc = "emit"

\* C2: when _split_text_into_chunks has returned for a page under a valid
\* configuration (chunk_size > 0, 0 <= overlap < chunk_size), every character
\* index of the page text lies in the slice [start, end) of a produced chunk.
\* The claim is read in its weakest sense: only the indices that hold a
\* non-whitespace character are asked for (a window that is blank after
\* trimming produces no chunk by design), so a violation of this formula is a
\* loss of text that trimming cannot explain.
C2_EveryCharacterCovered ==
    (SplitReturned /\ ValidConfig) =>
        \A i \in 0..(Len(page_text) - 1) :
            ~IsSpace(page_text[i + 1]) => Covered(i)

\* C3: under a valid configuration the window loop terminates: it never comes
\* back to a value of start it has already processed (the loop body is a
\* function of start alone, so a repeated start is a loop that never reaches
\* start >= len(page_text)).
C3_LoopTerminates == ValidConfig => pc # "hang"

\* C4: with overlap >= chunk_size, chunk_text rejects the configuration before
\* producing any chunk: it never returns a page's text as a chunk and never
\* enters the window loop.
C4_InvalidConfigRejected ==
    (overlap >= chunk_size) =>
        /\ pc \notin {"split", "emit", "hang", "done"}
        /\ page_chunks = <<>>
        /\ chunks = <<>>

\* the chunks of page p, in output order
ChunksOfPage(p) == SelectSeq(chunks, LAMBDA c : c.page_number = p)

\* C9: the chunks chunk_text has built have pairwise distinct ids and pairwise
\* distinct (page_number, chunk_index) pairs, and each chunk's chunk_index is
\* the number of chunks of its page that precede it in output order (0 for the
\* first chunk of a page, then increasing by 1).
C9_IdsAndPositionsUnique ==
    /\ \A i, j \in 1..Len(chunks) :
          i # j =>
            /\ chunks[i].id # chunks[j].id
            /\ <<chunks[i].page_number, chunks[i].chunk_index>>
                 # <<chunks[j].page_number, chunks[j].chunk_index>>
    /\ \A i \in 1..Len(chunks) :
          chunks[i].chunk_index =
              Cardinality({j \in 1..(i - 1) :
                              chunks[j].page_number = chunks[i].page_number})

\* C9's case: chunk_text has returned chunks of two pages, one page with at
\* least two chunks
C9_Witness ==
    /\ pc = "done"
    /\ \E i, j, k \in 1..Len(chunks) :
          /\ i < j /\ j < k
          /\ chunks[i].page_number = chunks[j].page_number
          /\ chunks[j].page_number # chunks[k].page_number

PageText(p) == Join(pages_content[p])
Blank(t) == Strip(t) = <<>>

\* the 3-page scenario: 50, 3000 and 50 characters, chunk_size=2000, overlap=200
IsScenario ==
    /\ chunk_size = 2000 /\ overlap = 200
    /\ DOMAIN pages_content = {1, 2, 3}
    /\ Len(PageText(1)) = 50 /\ Len(PageText(2)) = 3000 /\ Len(PageText(3)) = 50

\* 1 chunk for page 1, 2 for page 2 (the second starting at offset 1800), 1 for page 3
ScenarioOutcome ==
    /\ Len(chunks) = 4
    /\ Len(ChunksOfPage(1)) = 1
    /\ Len(ChunksOfPage(2)) = 2
    /\ ChunksOfPage(2)[2].start = 1800
    /\ Len(ChunksOfPage(3)) = 1

\* C10 as stated: when chunk_text has returned, every page whose text is no
\* longer than chunk_size has exactly one chunk, and the 3-page scenario has the
\* 4 chunks of ScenarioOutcome.
C10_AsStated ==
    pc = "done" =>
        /\ \A p \in DOMAIN pages_content :
              Len(PageText(p)) <= chunk_size => Len(ChunksOfPage(p)) = 1
        /\ IsScenario => ScenarioOutcome

\* no sentence terminator at the 0-based offsets a..b of text
NoTerminator(text, a, b) ==
    \A i \in a..b : text[i + 1] \notin {".", "!", "?", "\n"}

\* the scenario's pages as C10 needs them: no page blank, page 2 with no
\* sentence terminator at offsets 1900..1998 and with neither its first 2000
\* characters nor its characters from offset 1800 on all whitespace
ScenarioPlain ==
    /\ IsScenario
    /\ ~Blank(PageText(1)) /\ ~Blank(PageText(3))
    /\ NoTerminator(PageText(2), 1900, 1998)
    /\ ~Blank(PySlice(PageText(2), 0, 2000))
    /\ ~Blank(PySlice(PageText(2), 1800, 3000))

\* C10 amended: when chunk_text has returned, every page whose text is no
\* longer than chunk_size has exactly one chunk if the text is not blank and
\* none if it is blank, and the 3-page scenario has the 4 chunks of
\* ScenarioOutcome when its pages are as in ScenarioPlain.
C10_ScenarioChunks ==
    pc = "done" =>
        /\ \A p \in DOMAIN pages_content :
              Len(PageText(p)) <= chunk_size =>
                  Len(ChunksOfPage(p)) = IF Blank(PageText(p)) THEN 0 ELSE 1
        /\ ScenarioPlain => ScenarioOutcome

\* C10's case: chunk_text has returned the scenario's 4 chunks
C10_Witness == pc = "done" /\ ScenarioPlain /\ Len(chunks) = 4

----------------------------------------------------------------------------
(* The vector store: embeddings, FAISS index, search, save and load *)

\* the largest number of chunks handed to create_embeddings
MaxChunks == 2
\* the largest top_k asked of search_similar_chunks
MaxTopK == 3

ChunkTexts == {"alpha", "beta"}
Queries == {"q1", "q2"}

\* SentenceTransformer.encode: a fixed text -> vector function (lines 139, 166)
Encode(t) ==
    CASE t = "alpha" -> <<3, 4>>
      [] t = "beta" -> <<8, 6>>
      [] t = "q1" -> <<5, 0>>
      [] t = "q2" -> <<0, 10>>

Dot(u, v) == u[1] * v[1] + u[2] * v[2]

\* faiss.normalize_L2 (lines 146, 167); every vector is scaled to length 5, so
\* that the coordinates stay integers
NormalizeL2(v) ==
    LET norm == CHOOSE n \in 1..20 : n * n = Dot(v, v)
    IN  <<(v[1] * 5) \div norm, (v[2] * 5) \div norm>>

\* the vectors create_embeddings adds to the index (lines 135-147)
Embeddings(cl) == [i \in 1..Len(cl) |-> NormalizeL2(Encode(cl[i].text))]

\* the VectorStore create_embeddings builds (lines 150-154)
BuildStore(cl) == [initialised |-> TRUE, index |-> Embeddings(cl), chunks |-> cl]

\* IndexFlatIP.search(query, k) (lines 170-173): k (score, label) pairs, the
\* stored vectors by descending inner product (the earlier one first on equal
\* scores), padded with label -1 and the lowest score when the index holds
\* fewer than k vectors
FaissSearch(index, qv, k) ==
    LET n == Len(index)
        score(i) == Dot(index[i], qv)
        before(j, i) == score(j) > score(i) \/ (score(j) = score(i) /\ j < i)
        rank(i) == Cardinality({j \in 1..n : before(j, i)})
        at(r) == CHOOSE i \in 1..n : rank(i) = r - 1
    IN  [r \in 1..k |->
            IF r <= n THEN [score |-> score(at(r)), idx |-> at(r) - 1]
            ELSE [score |-> -1000000, idx |-> -1]]

\* lines 176-182: the loop over zip(scores[0], indices[0]); cl[idx] with Python's
\* indexing (a negative idx counts from the end, IndexError past either end)
RECURSIVE CollectResults(_, _, _)
CollectResults(hits, cl, found) ==
    IF hits = <<>> THEN [status |-> "ok", results |-> found]
    ELSE LET h == Head(hits)
             pos == IF h.idx < 0 THEN h.idx + Len(cl) ELSE h.idx
         IN  IF h.idx < Len(cl)
             THEN IF pos < 0 THEN [status |-> "IndexError", results |-> <<>>]
                  ELSE CollectResults(Tail(hits), cl,
                           Append(found, [chunk |-> cl[pos + 1], score |-> h.score]))
             ELSE CollectResults(Tail(hits), cl, found)

\* search_similar_chunks on an initialised store (lines 165-182)
SearchStore(store, query, top_k) ==
    CollectResults(FaissSearch(store.index, NormalizeL2(Encode(query)), top_k),
                   store.chunks, <<>>)

\* os.path.dirname(filepath) is empty for a bare file name
HasDirectory(path) == path = "stores/doc"
Paths == {"stores/doc", "doc"}

\* the chunk lists create_embeddings is called with: ids chunk_0, chunk_1, ...
ChunkLists ==
    UNION {{[i \in 1..n |-> [id |-> i - 1, text |-> f[i]]] : f \in [1..n -> ChunkTexts]} :
              n \in 0..MaxChunks}

\* a faulty variant of lines 131-132: the store of an empty chunk list is
\* installed before the error is raised
CreateEmbeddingsInstallsFirst ==
    \E cl \in ChunkLists :
        /\ vector_store' = BuildStore(cl)
        /\ ret' = [op |-> "create_embeddings",
                   status |-> IF cl = <<>> THEN "ValueError" ELSE "ok"]
        /\ UNCHANGED disk
        /\ UNCHANGED notStoreVars

\* create_embeddings (lines 129-157)
CreateEmbeddings ==
    \E cl \in ChunkLists :
        /\ IF cl = <<>>
           THEN /\ ret' = [op |-> "create_embeddings", status |-> "ValueError"]
                /\ UNCHANGED vector_store
           ELSE /\ vector_store' = BuildStore(cl)
                /\ ret' = [op |-> "create_embeddings", status |-> "ok"]
        /\ UNCHANGED disk
        /\ UNCHANGED notStoreVars

\* search_similar_chunks (lines 160-182)
SearchSimilarChunks ==
    \E q \in Queries, k \in 1..MaxTopK :
        /\ ret' = IF ~vector_store.initialised
                  THEN [op |-> "search", query |-> q, top_k |-> k,
                        status |-> "ValueError", results |-> <<>>]
                  ELSE [op |-> "search", query |-> q, top_k |-> k,
                        status |-> SearchStore(vector_store, q, k).status,
                        results |-> SearchStore(vector_store, q, k).results]
        /\ UNCHANGED <<vector_store, disk>>
        /\ UNCHANGED notStoreVars

\* pickle.dump of the chunk list (lines 198-201): each Chunk is written as the
\* values of its fields, in list order
PickleDump(cl) == [i \in 1..Len(cl) |-> <<cl[i].id, cl[i].text>>]

\* a faulty variant of line 213: the chunks come back in reverse order
PickleLoadReversed(data) ==
    [i \in 1..Len(data) |->
        [id |-> data[Len(data) + 1 - i][1], text |-> data[Len(data) + 1 - i][2]]]

\* pickle.load (line 213): the Chunk objects rebuilt from the written values
PickleLoad(data) == [i \in 1..Len(data) |-> [id |-> data[i][1], text |-> data[i][2]]]

\* what save_vector_store writes: <path>.index (line 194) and <path>.chunks
\* (lines 197-201)
SavedFiles(store) ==
    [has_index |-> TRUE, index |-> store.index,
     has_chunks |-> TRUE, chunks |-> PickleDump(store.chunks)]

\* save_vector_store (lines 185-203)
SaveVectorStore ==
    \E path \in Paths :
        /\ IF ~vector_store.initialised
           THEN /\ ret' = [op |-> "save", path |-> path, status |-> "ValueError"]
                /\ UNCHANGED disk
           ELSE IF ~HasDirectory(path)
           THEN \* os.makedirs("") raises
                /\ ret' = [op |-> "save", path |-> path, status |-> "FileNotFoundError"]
                /\ UNCHANGED disk
           ELSE /\ disk' = [disk EXCEPT ![path] = SavedFiles(vector_store)]
                /\ ret' = [op |-> "save", path |-> path, status |-> "ok"]
        /\ UNCHANGED vector_store
        /\ UNCHANGED notStoreVars

\* save_vector_store when writing <path>.chunks fails (open or pickle.dump
\* raises OSError at lines 197-201): <path>.index is already written (line 194)
SaveVectorStoreInterrupted ==
    \E path \in Paths :
        /\ vector_store.initialised /\ HasDirectory(path)
        /\ disk' = [disk EXCEPT ![path].has_index = TRUE, ![path].index = vector_store.index]
        /\ ret' = [op |-> "save", path |-> path, status |-> "OSError"]
        /\ UNCHANGED vector_store
        /\ UNCHANGED notStoreVars

\* the VectorStore load_vector_store installs from the two files (lines 216-220)
LoadedStore(files) ==
    [initialised |-> TRUE, index |-> files.index, chunks |-> PickleLoad(files.chunks)]

\* load_vector_store (lines 206-223); after_save: the call comes right after a
\* successful save_vector_store of the same path
LoadVectorStore ==
    \E path \in Paths :
        /\ IF ~disk[path].has_index \/ ~disk[path].has_chunks
           THEN \* faiss.read_index or open raises
                /\ ret' = [op |-> "load", path |-> path, status |-> "FileNotFoundError",
                           after_save |-> FALSE]
                /\ UNCHANGED vector_store
           ELSE /\ vector_store' = LoadedStore(disk[path])
                /\ ret' = [op |-> "load", path |-> path, status |-> "ok",
                           after_save |-> (ret.op = "save" /\ ret.status = "ok"
                                            /\ ret.path = path)]
        /\ UNCHANGED disk
        /\ UNCHANGED notStoreVars

StoreInit ==
    ChunkIdle /\ StoreIdle /\ RagIdle /\ NoveltyIdle /\ OutlineIdle /\ ServiceIdle

StoreNext ==
    \/ CreateEmbeddings
    \/ SearchSimilarChunks
    \/ SaveVectorStore
    \/ SaveVectorStoreInterrupted
    \/ LoadVectorStore

StoreSpec == StoreInit /\ [][StoreNext]_vars


----------------------------------------------------------------------------
(* Claims about the vector store *)

\* the store is the one create_embeddings builds from its own chunk list
BuiltFromChunks(store) == store.initialised /\ store = BuildStore(store.chunks)

\* the ids of the chunks a search returned, in order
ResultIds(found) == [i \in 1..Len(found) |-> found[i].chunk.id]

\* C5: on an index built from n chunks, a search with top_k > n returns exactly
\* n results, each pairing a different chunk, and raises no error
C5_TopKBeyondIndexSize ==
    (/\ ret.op = "search"
     /\ BuiltFromChunks(vector_store)
     /\ ret.top_k > Len(vector_store.chunks))
    => /\ ret.status = "ok"
       /\ Len(ret.results) = Len(vector_store.chunks)
       /\ \A i, j \in 1..Len(ret.results) :
              i # j => ret.results[i].chunk.id # ret.results[j].chunk.id

ConsistentFiles(files) ==
    /\ files.has_index /\ files.has_chunks
    /\ Len(files.index) = Len(files.chunks)
    /\ files.index = Embeddings(PickleLoad(files.chunks))

\* C7: load_vector_store succeeds only on a path whose two files are present and
\* consistent with each other
C7_LoadRejectsBadArtifacts ==
    (ret.op = "load" /\ ret.status = "ok") => ConsistentFiles(disk[ret.path])

\* C8: whenever the service holds a vector store, the index has as many vectors
\* as the store has chunks and the i-th vector is the embedding of the i-th chunk
C8_IndexMatchesChunks ==
    vector_store.initialised
    => /\ Len(vector_store.index) = Len(vector_store.chunks)
       /\ \A i \in 1..Len(vector_store.chunks) :
              vector_store.index[i] = NormalizeL2(Encode(vector_store.chunks[i].text))

----------------------------------------------------------------------------
(* RAGSystem: texts *)

\* the most outline items one run is given
MaxItems == 2
\* max_bullets / max_bullets_per_item (the defaults of lines 146 and 708)
MaxBullets == 15
\* top_k (the default of lines 145 and 707)
DefaultTopK == 20

\* A string is its wording in lower case (body), whether it holds upper-case
\* letters (cased), whether white space surrounds it (padded), and whether it
\* starts with a bullet symbol ("- ").
Text(b, c, p) == [body |-> b, cased |-> c, padded |-> p, bullet |-> FALSE]

\* the empty string
NoText == Text("", FALSE, FALSE)

\* str.lower()
Lower(t) == [t EXCEPT !.cased = FALSE]

\* str.strip()
StripText(t) == [t EXCEPT !.padded = FALSE]

\* the wordings of the model
D1 == "we redesigned the checkout."
D1X == "we redesigned the checkout. this section expands on that with relevant details from the project."
D2 == "users get lost..."
D2X == "users get lost... this section expands on that with relevant details from the project."
N1 == "we spoke with shoppers and mapped where they dropped out of the flow."
X1 == "we then tested it with five users."
B1 == "users abandoned the checkout design after two steps"
B2 == "users abandoned our checkout design after two steps"
B3 == "it was a rainy week in the studio with lots of coffee"
B4 == "here are the bullet points for this slide"
B5 == "we ran an interview with twelve participants about the problem"

\* len() of a stripped wording
BodyLen(b) ==
    CASE b = "" -> 0
      [] b = D1 -> 27
      [] b = D1X -> 96
      [] b = D2 -> 17
      [] b = D2X -> 86
      [] b = N1 -> 69
      [] b = X1 -> 34
      [] b = B1 -> 51
      [] b = B2 -> 51
      [] b = B3 -> 53
      [] b = B4 -> 41
      [] b = B5 -> 62

\* len(t): surrounding white space counts
TextLen(t) ==
    BodyLen(t.body) + (IF t.padded THEN 2 ELSE 0) + (IF t.bullet THEN 2 ELSE 0)

\* the string without a leading bullet symbol (lines 539-542, line 405)
RemoveSymbol(t) == [t EXCEPT !.bullet = FALSE]

\* the wording holds one of skip_phrases in its first 50 characters (lines 549-558)
HasSkipPhrase(b) == b = B4

\* the wording holds one of good_words (line 659)
HasGoodWord(b) == b \in {D1, D1X, D2, D2X, B1, B2, B5}

\* the wording holds one of bad_phrases (line 658): 'this section'
HasBadPhrase(b) == b \in {D1X, D2X}

\* the stripped string ends with '...' (lines 560-562, 599 and 663)
EndsIncomplete(t) == t.body = D2

\* the wording holds one of research_keywords (line 652)
HasResearchKeyword(b) == b = B5

\* the first of the phrases of line 578 the wording holds, "" for none
DedupKey(b) == IF b = B5 THEN "participant" ELSE ""

\* SequenceMatcher(None, a, b).ratio() in percent: 100 for equal strings, above
\* 90 when only the case of a letter, the surrounding white space or one word
\* differs
Ratio(a, b) ==
    IF a = b THEN 100
    ELSE IF a.body = b.body THEN 96
    ELSE IF {a.body, b.body} = {B1, B2} THEN 94
    ELSE 30

\* how many three-word phrases of a occur in b (lines 643-646)
SharedPhrases(a, b) ==
    IF a.body = b.body THEN 5
    ELSE IF {a.body, b.body} = {B1, B2} THEN 4
    ELSE 0

Take(s, n) == SubSeq(s, 1, Min(n, Len(s)))

----------------------------------------------------------------------------
(* RAGSystem: the steps of generate_bullets_for_outline_item *)

\* _determine_section_type (lines 25-57): the type and whether the section is a
\* research section; item.kind is the first entry of section_mappings one of
\* whose keywords occurs in the item's title or description
DetermineSectionType(item) ==
    IF ~narrative.set THEN "general" ELSE item.kind

\* _extract_section_text_from_narrative (lines 60-138); narrative.sections gives,
\* per outline title, the text between the heading the title (or a word of the
\* description) matches and the next heading
ExtractSectionText(item) ==
    IF ~narrative.set THEN NoText
    ELSE LET section_text == StripText(narrative.sections[item.title])
         IN  IF TextLen(section_text) > 20 THEN section_text ELSE NoText

\* similar_chunks[:14] (line 301)
ContextLimit == 14

\* the cleaned chunk text is longer than 30 characters (line 308)
Substantial(chunk_text) == chunk_text = "alpha"

\* the loop of _prepare_context (lines 301-311) from its i-th candidate on:
\* context_part is the part formatted last (none while it is unbound), and an
\* entry of context_parts names the candidate it was formatted from
RECURSIVE ContextLoop(_, _, _, _)
ContextLoop(candidates, i, context_part, context_parts) ==
    IF i > Len(candidates) THEN [raised |-> FALSE, parts |-> context_parts]
    ELSE LET chunk == candidates[i].chunk
             part == IF Substantial(chunk.text)
                     THEN <<[source |-> i, id |-> chunk.id]>>
                     ELSE context_part
         IN  IF part = <<>> THEN [raised |-> TRUE, parts |-> <<>>]
             ELSE ContextLoop(candidates, i + 1, part, context_parts \o part)

\* _prepare_context (lines 295-313): whether line 311 raised on the unbound
\* context_part, and the parts the context is joined from
ContextParts(similar_chunks) ==
    ContextLoop(Take(similar_chunks, ContextLimit), 1, <<>>, <<>>)

\* _prepare_context (lines 295-313) on the chunks sorted by page and position:
\* context_part is unbound when the first chunk is too short to be formatted
PrepareContext(similar_chunks) ==
    IF ContextParts(similar_chunks).raised THEN "UnboundLocalError" ELSE "ok"

\* _parse_bullets (lines 518-572) on the lines of the response
RECURSIVE ParseBullets(_)
ParseBullets(lines) ==
    IF lines = <<>> THEN <<>>
    ELSE LET line == StripText(RemoveSymbol(StripText(Head(lines))))
             rest == ParseBullets(Tail(lines))
         IN  IF \/ line = NoText
                \/ TextLen(line) < 15
                \/ HasSkipPhrase(line.body)
                \/ EndsIncomplete(line)
                \/ TextLen(line) < 20
                \/ ~(TextLen(line) > 15 /\ TextLen(line) < 300)
             THEN rest
             ELSE <<line>> \o rest

\* _is_good_bullet (lines 655-667)
IsGoodBullet(bullet) ==
    /\ ~HasBadPhrase(bullet.body)
    /\ ~EndsIncomplete(bullet)
    /\ 20 <= TextLen(bullet) /\ TextLen(bullet) <= 600
    /\ HasGoodWord(bullet.body)

\* _filter_bullets (lines 591-639), filtered being the list built so far and
\* research_section the value of self._is_research_section
RECURSIVE FilterBullets(_, _, _)
FilterBullets(bullets, filtered, research_section) ==
    IF bullets = <<>> THEN filtered
    ELSE LET bullet == Head(bullets)
             is_duplicate ==
                 \E i \in 1..Len(all_seen_bullets) : Ratio(Lower(bullet), all_seen_bullets[i]) > 80
             is_duplicate_local ==
                 \E i \in 1..Len(filtered) : Ratio(Lower(bullet), Lower(filtered[i])) > 80
             has_repeated_concept ==
                 \E i \in 1..Len(filtered) : SharedPhrases(bullet, filtered[i]) >= 3
             keep ==
                 /\ ~EndsIncomplete(bullet)
                 /\ ~is_duplicate
                 /\ ~is_duplicate_local
                 /\ ~has_repeated_concept
                 /\ ~(HasResearchKeyword(bullet.body) /\ ~research_section)
                 /\ IsGoodBullet(bullet)
         IN  FilterBullets(Tail(bullets), IF keep THEN Append(filtered, bullet) ELSE filtered,
                           research_section)

\* _deduplicate_phrases (lines 574-589)
RECURSIVE DeduplicatePhrases(_, _)
DeduplicatePhrases(bullets, seen_keys) ==
    IF bullets = <<>> THEN <<>>
    ELSE LET b == Head(bullets)
             key == DedupKey(b.body)
         IN  IF key # "" /\ key \in seen_keys
             THEN DeduplicatePhrases(Tail(bullets), seen_keys)
             ELSE <<StripText(b)>> \o
                  DeduplicatePhrases(Tail(bullets),
                                     IF key # "" THEN seen_keys \cup {key} ELSE seen_keys)

\* _expand_outline_description (lines 689-700): a description of one sentence
\* gets the closing sentence appended
ExpandOutlineDescription(desc) ==
    IF desc.body = D1 THEN [desc EXCEPT !.body = D1X]
    ELSE IF desc.body = D2 THEN [desc EXCEPT !.body = D2X]
    ELSE desc

\* _merge_outline_description (lines 669-687)
MergeOutlineDescription(description, bullets, max_bullets) ==
    IF description = NoText \/ StripText(description) = NoText
    THEN Take(bullets, max_bullets)
    ELSE LET expanded_desc == ExpandOutlineDescription(StripText(description))
         IN  IF \E i \in 1..Len(bullets) : Ratio(Lower(expanded_desc), Lower(bullets[i])) > 90
             THEN Take(bullets, max_bullets)
             ELSE <<expanded_desc>> \o Take(bullets, Max(0, max_bullets - 1))

\* _create_bullets_with_provenance (lines 262-292): the texts of the BulletPoints
\* it returns, and what it appends to all_seen_bullets
CreatedTexts(bullets) ==
    LET kept == SelectSeq(bullets, LAMBDA b : b # NoText /\ TextLen(StripText(b)) > 10)
    IN  [i \in 1..Len(kept) |-> StripText(kept[i])]

SeenTexts(bullets) ==
    LET kept == SelectSeq(bullets, LAMBDA b : b # NoText /\ TextLen(StripText(b)) > 10)
    IN  [i \in 1..Len(kept) |-> Lower(kept[i])]

----------------------------------------------------------------------------
(* RAGSystem: generate_comprehensive_bullets as a state machine *)

Titles == {"T1", "T2"}

SectionKinds == {"problem_statement", "research", "general"}

\* OutlineItem.description
Descriptions == {NoText, Text(D1, TRUE, FALSE), Text(D1, TRUE, TRUE), Text(D2, TRUE, FALSE)}

OutlineItems == [title : Titles, description : Descriptions, kind : SectionKinds]

\* the outlines of a run: up to MaxItems items with different titles
Outlines ==
    UNION {{o \in [1..n -> OutlineItems] :
               \A i, j \in 1..n : i # j => o[i].title # o[j].title} : n \in 1..MaxItems}

\* the narratives: per title, the section text found for it (none, or the same
\* paragraph)
Narratives ==
    {[set |-> FALSE, sections |-> <<>>]} \cup
    {[set |-> TRUE, sections |-> f] : f \in [Titles -> {NoText, Text(N1, TRUE, FALSE)}]}

\* what the language model answers to _generate_bullets_with_llm (lines 496-515):
\* the lines of the response, none when the call raised
Line(b) == [Text(b, TRUE, FALSE) EXCEPT !.bullet = TRUE]

Responses ==
    {<<>>, <<Line(B1)>>, <<Line(B1), Line(B2)>>, <<Line(B4), Line(B3)>>,
     <<Line(B5), Line(B1)>>, <<Line(D1X)>>}

\* what _generate_intelligent_expansion returns (lines 399-411): the response
\* without a leading bullet symbol, "" when the call raised
Expansions == {NoText, RemoveSymbol(StripText(Line(X1)))}

\* the vector stores a run is given: none, or one built by create_embeddings
StoredChunk(i, t, p, k) == [id |-> i, text |-> t, page_number |-> p, chunk_index |-> k]

RagStores ==
    {[initialised |-> FALSE, index |-> <<>>, chunks |-> <<>>],
     BuildStore(<<StoredChunk(0, "alpha", 1, 0)>>),
     BuildStore(<<StoredChunk(0, "beta", 1, 0), StoredChunk(1, "alpha", 1, 1)>>),
     BuildStore(<<StoredChunk(0, "alpha", 1, 0), StoredChunk(1, "alpha", 1, 1),
                  StoredChunk(2, "beta", 2, 0)>>)}

\* query_keywords of section_mappings (lines 35-49), per section type
KeywordsOf(section_type) ==
    CASE section_type = "problem_statement" -> ""
      [] section_type = "research" -> "research methods findings themes insights"
      [] section_type = "general" -> ""

\* a faulty variant of lines 157-167: the title is put before the description
QueryPartsTitleFirst(item) ==
    <<Text(item.title, TRUE, FALSE)>> \o
    (IF item.description # NoText THEN <<item.description, item.description>> ELSE <<>>) \o
    (IF KeywordsOf(DetermineSectionType(item)) # ""
     THEN <<Text(KeywordsOf(DetermineSectionType(item)), FALSE, FALSE)>> ELSE <<>>)

\* query_parts (lines 157-167), which " ".join makes the query of
QueryParts(item) ==
    (IF item.description # NoText THEN <<item.description, item.description>> ELSE <<>>) \o
    <<Text(item.title, TRUE, FALSE)>> \o
    (IF KeywordsOf(DetermineSectionType(item)) # ""
     THEN <<Text(KeywordsOf(DetermineSectionType(item)), FALSE, FALSE)>> ELSE <<>>)

\* the key of lines 185-188 and 233-236
ChronologicalKey(hit) == <<hit.chunk.page_number, hit.chunk.chunk_index>>

KeyLessOrEqual(a, b) == a[1] < b[1] \/ (a[1] = b[1] /\ a[2] <= b[2])

\* a faulty variant of lines 233-236: the hits stay in the order of their scores
SortByScore(hits) == hits

\* a hit put into a sorted list behind every hit whose key is not greater
RECURSIVE InsertByKey(_, _)
InsertByKey(sorted, hit) ==
    IF sorted = <<>> THEN <<hit>>
    ELSE IF KeyLessOrEqual(ChronologicalKey(Head(sorted)), ChronologicalKey(hit))
         THEN <<Head(sorted)>> \o InsertByKey(Tail(sorted), hit)
         ELSE <<hit>> \o sorted

\* sorted(similar_chunks, key=...) (lines 185-188 and 233-236): a stable sort
RECURSIVE SortChronological(_)
SortChronological(hits) ==
    IF hits = <<>> THEN <<>>
    ELSE InsertByKey(SortChronological(SubSeq(hits, 1, Len(hits) - 1)), hits[Len(hits)])

\* the embedding of the query built from the item's description and title
\* (lines 157-167)
QueryOf(item) == IF item.description = NoText THEN "q1" ELSE "q2"

RagInit ==
    /\ ChunkIdle
    /\ disk = [p \in {"stores/doc", "doc"} |->
                  [has_index |-> FALSE, index |-> <<>>, has_chunks |-> FALSE, chunks |-> <<>>]]
    /\ ret = [op |-> "init"]
    /\ vector_store \in RagStores
    /\ narrative \in Narratives
    /\ outline_items \in Outlines
    /\ item_pos = 0
    /\ all_seen_bullets = <<>>
    /\ is_research_section = FALSE
    /\ results = <<>>
    /\ rag_pc = "idle"
    /\ section_log = <<>>
    /\ NoveltyIdle
    /\ OutlineIdle
    /\ ServiceIdle

ragFrame == <<chunkVars, storeVars, noveltyVars, outlineVars, serviceVars, narrative>>

\* generate_comprehensive_bullets, entry (lines 703-715), for the first time or
\* again on the same outline
GenerateComprehensiveBullets ==
    /\ rag_pc \in {"idle", "returned"}
    /\ all_seen_bullets' = <<>>
    /\ results' = <<>>
    /\ item_pos' = 0
    /\ rag_pc' = "loop"
    /\ section_log' = <<>>
    /\ UNCHANGED <<outline_items, is_research_section>>
    /\ UNCHANGED ragFrame

\* the bullets generate_bullets_for_outline_item returns for the item (lines
\* 141-259), given what search_similar_chunks returns for its query, that list
\* sorted by page and position, and the answers of the language model
BulletsFor(item, hits, similar_chunks, response, expansion, research_section) ==
    LET exact_narrative_text == ExtractSectionText(item)
        section_type == DetermineSectionType(item)
        base_text == StripText(exact_narrative_text)
        out(status, bullets, seen, searched, context, llm_called) ==
            [status |-> status, bullets |-> bullets, seen |-> seen,
             hits |-> IF searched THEN hits ELSE <<>>, searched |-> searched,
             context |-> context, llm_called |-> llm_called]
        raised(e, searched, context) == out(e, <<>>, <<>>, searched, context, FALSE)
        created(bullets, context, llm_called) ==
            out("ok", CreatedTexts(bullets), SeenTexts(bullets), TRUE, context, llm_called)
    IN  IF exact_narrative_text # NoText
        THEN IF section_type = "problem_statement"
             THEN out("ok", CreatedTexts(<<base_text>>), SeenTexts(<<base_text>>),
                      FALSE, <<>>, FALSE)
             ELSE IF ~vector_store.initialised THEN raised("ValueError", FALSE, <<>>)
             ELSE IF hits # <<>> /\ PrepareContext(similar_chunks) # "ok"
             THEN raised("UnboundLocalError", TRUE, similar_chunks)
             ELSE created(<<base_text>> \o
                          (IF hits # <<>> /\ StripText(expansion) # NoText
                           THEN <<StripText(expansion)>> ELSE <<>>),
                          IF hits # <<>> THEN similar_chunks ELSE <<>>, hits # <<>>)
        ELSE IF /\ section_type = "problem_statement"
                /\ item.description # NoText
                /\ StripText(item.description) # NoText
        THEN out("ok", <<StripText(item.description)>>, <<>>, FALSE, <<>>, FALSE)
        ELSE IF ~vector_store.initialised THEN raised("ValueError", FALSE, <<>>)
        ELSE IF hits = <<>> THEN out("ok", <<>>, <<>>, TRUE, <<>>, FALSE)
        ELSE IF PrepareContext(similar_chunks) # "ok"
        THEN raised("UnboundLocalError", TRUE, similar_chunks)
        ELSE created(MergeOutlineDescription(
                         item.description,
                         DeduplicatePhrases(
                             FilterBullets(ParseBullets(response), <<>>, research_section), {}),
                         MaxBullets),
                     similar_chunks, TRUE)

\* a faulty variant of lines 496-515: the answer is used although the call raised
LlmAnswerUnhandled(raises, response) == response

\* _generate_bullets_with_llm, the try of lines 496-515: the response, "" when
\* generate_chat_completion raised
LlmAnswer(raises, response) == IF raises THEN <<>> ELSE response

\* _generate_intelligent_expansion, the try of lines 399-411: the expansion, ""
\* when generate_chat_completion raised
ExpansionAnswer(raises, expansion) == IF raises THEN NoText ELSE expansion

\* one turn of the loop of lines 718-730
GenerateBulletsForOutlineItem ==
    /\ rag_pc = "loop"
    /\ item_pos < Len(outline_items)
    /\ LET item == outline_items[item_pos + 1]
           research_section == narrative.set /\ item.kind = "research"
       IN  \E hits \in {SearchStore(vector_store, QueryOf(item), DefaultTopK).results} :
           \E similar_chunks \in {SortChronological(hits)} :
           \E response \in Responses, expansion \in Expansions, raises \in BOOLEAN :
           \E out \in {BulletsFor(item, hits, similar_chunks, LlmAnswer(raises, response),
                                  ExpansionAnswer(raises, expansion), research_section)} :
               /\ is_research_section' = research_section
               /\ section_log' = Append(section_log,
                      [query |-> QueryParts(item), searched |-> out.searched,
                       hits |-> out.hits, context |-> out.context,
                       llm_called |-> out.llm_called,
                       llm_failed |-> raises /\ out.llm_called])
               /\ IF out.status = "ok"
                  THEN /\ results' = results \o
                              <<[title |-> item.title,
                                 bullets |-> Take(out.bullets, MaxBullets)]>>
                       /\ all_seen_bullets' = all_seen_bullets \o out.seen
                       /\ item_pos' = item_pos + 1
                       /\ rag_pc' = "loop"
                  ELSE /\ rag_pc' = out.status
                       /\ UNCHANGED <<results, all_seen_bullets, item_pos>>
    /\ UNCHANGED outline_items
    /\ UNCHANGED ragFrame

\* generate_comprehensive_bullets returns results (line 732)
ReturnResults ==
    /\ rag_pc = "loop"
    /\ item_pos = Len(outline_items)
    /\ rag_pc' = "returned"
    /\ UNCHANGED <<outline_items, item_pos, all_seen_bullets, is_research_section, results,
                   section_log>>
    /\ UNCHANGED ragFrame

RagNext ==
    \/ GenerateComprehensiveBullets
    \/ GenerateBulletsForOutlineItem
    \/ ReturnResults

RagSpec == RagInit /\ [][RagNext]_vars

----------------------------------------------------------------------------
(* Claims about RAGSystem *)

\* C1: within one run of generate_comprehensive_bullets, a bullet text emitted
\* for one section is not emitted again, as the exact same string, for a later
\* section
C1_NoBulletRepeatedAcrossSections ==
    \A i, j \in 1..Len(results) :
        i < j => \A m \in 1..Len(results[i].bullets), n \in 1..Len(results[j].bullets) :
                     results[i].bullets[m] # results[j].bullets[n]

----------------------------------------------------------------------------
(* RAGSystem of src/src/rag_system.py: the paragraphs and their measures *)

\* the most runs of generate_comprehensive_bullets on one RAGSystem
MaxRuns == 2
\* the most outline items of one run
MaxSections == 2
\* max_bullets / max_bullets_per_item (the defaults of lines 28 and 482)
MaxParagraphs == 5

\* The paragraphs the language model writes.  A paragraph is [name, cased]:
\*   P1 "Users struggled with the checkout design during early testing sessions."
\*   P2 "Early sessions: testing users, checkout struggled; design during!"
\*   P3 "Our research method relied on weekly feedback from nine pilot families."
\*   P4 "Users struggled with the checkout design on slow mobile networks today."
\*   P5 "Here are the paragraphs about the design of the system."
\*   P6 "It rained a lot that week and the studio roof kept leaking water."
\*   P7 "That was the prototype that had been for those designers; users struggled
\*       with the checkout design."
\*   P8 "Designers were at the interviews that were for the users that had been on
\*       this prototype."
ParagraphNames == {"P1", "P2", "P3", "P4", "P5", "P6", "P7", "P8"}

Paragraph(name) == [name |-> name, cased |-> TRUE]

\* text.lower().split()
ParagraphTokens(p) ==
    CASE p = "P1" -> <<"users", "struggled", "with", "the", "checkout", "design", "during",
                       "early", "testing", "sessions.">>
      [] p = "P2" -> <<"early", "sessions:", "testing", "users,", "checkout", "struggled;",
                       "design", "during!">>
      [] p = "P3" -> <<"our", "research", "method", "relied", "on", "weekly", "feedback",
                       "from", "nine", "pilot", "families.">>
      [] p = "P4" -> <<"users", "struggled", "with", "the", "checkout", "design", "on",
                       "slow", "mobile", "networks", "today.">>
      [] p = "P5" -> <<"here", "are", "the", "paragraphs", "about", "the", "design", "of",
                       "the", "system.">>
      [] p = "P6" -> <<"it", "rained", "a", "lot", "that", "week", "and", "the", "studio",
                       "roof", "kept", "leaking", "water.">>
      [] p = "P7" -> <<"that", "was", "the", "prototype", "that", "had", "been", "for",
                       "those", "designers;", "users", "struggled", "with", "the",
                       "checkout", "design.">>
      [] p = "P8" -> <<"designers", "were", "at", "the", "interviews", "that", "were",
                       "for", "the", "users", "that", "had", "been", "on", "this",
                       "prototype.">>

\* len(text)
ParagraphLen(p) ==
    CASE p = "P1" -> 71
      [] p = "P2" -> 65
      [] p = "P3" -> 71
      [] p = "P4" -> 71
      [] p = "P5" -> 55
      [] p = "P6" -> 65
      [] p = "P7" -> 99
      [] p = "P8" -> 89

\* SequenceMatcher(None, a.lower(), b.lower()).ratio() in thousandths, as difflib
\* gives it for the paragraphs that reach a comparison
SeqRatio(a, b) ==
    IF a = b THEN 1000 ELSE
    CASE <<a, b>> = <<"P1", "P2">> -> 426
      [] <<a, b>> = <<"P1", "P3">> -> 310
      [] <<a, b>> = <<"P1", "P4">> -> 648
      [] <<a, b>> = <<"P2", "P1">> -> 426
      [] <<a, b>> = <<"P2", "P3">> -> 118
      [] <<a, b>> = <<"P2", "P4">> -> 338
      [] <<a, b>> = <<"P3", "P1">> -> 254
      [] <<a, b>> = <<"P3", "P2">> -> 191
      [] <<a, b>> = <<"P3", "P4">> -> 268
      [] <<a, b>> = <<"P4", "P1">> -> 634
      [] <<a, b>> = <<"P4", "P2">> -> 353
      [] <<a, b>> = <<"P4", "P3">> -> 324
      [] <<a, b>> = <<"P1", "P7">> -> 482
      [] <<a, b>> = <<"P1", "P8">> -> 175
      [] <<a, b>> = <<"P2", "P7">> -> 390
      [] <<a, b>> = <<"P2", "P8">> -> 299
      [] <<a, b>> = <<"P3", "P7">> -> 282
      [] <<a, b>> = <<"P3", "P8">> -> 312
      [] <<a, b>> = <<"P4", "P7">> -> 482
      [] <<a, b>> = <<"P4", "P8">> -> 288
      [] <<a, b>> = <<"P7", "P1">> -> 482
      [] <<a, b>> = <<"P7", "P2">> -> 390
      [] <<a, b>> = <<"P7", "P3">> -> 188
      [] <<a, b>> = <<"P7", "P4">> -> 482
      [] <<a, b>> = <<"P7", "P8">> -> 394
      [] <<a, b>> = <<"P8", "P1">> -> 262
      [] <<a, b>> = <<"P8", "P2">> -> 117
      [] <<a, b>> = <<"P8", "P3">> -> 275
      [] <<a, b>> = <<"P8", "P4">> -> 212
      [] <<a, b>> = <<"P8", "P7">> -> 415

\* the \w+ word of a token (line 281): the token without its punctuation
WordOf(token) ==
    CASE token = "sessions." -> "sessions"
      [] token = "sessions:" -> "sessions"
      [] token = "users," -> "users"
      [] token = "struggled;" -> "struggled"
      [] token = "during!" -> "during"
      [] token = "families." -> "families"
      [] token = "today." -> "today"
      [] token = "system." -> "system"
      [] token = "water." -> "water"
      [] token = "designers;" -> "designers"
      [] token = "design." -> "design"
      [] token = "prototype." -> "prototype"
      [] OTHER -> token

\* the stop words of _is_stopword_ngram (line 273) that occur in the paragraphs
NgramStopWords ==
    {"the", "a", "on", "of", "are", "that", "with", "from", "was", "had", "been", "for",
     "those", "were", "at", "this"}

\* the stop words of _create_semantic_fingerprint (line 284) that occur in the
\* paragraphs
FingerprintStopWords == NgramStopWords \cup {"it"}

\* the words of at most 3 letters
ShortWords == {"the", "a", "on", "of", "are", "it", "our", "lot", "and", "was", "had", "for", "at"}

\* _is_stopword_ngram (lines 271-276)
IsStopwordNgram(ngram) ==
    Cardinality({i \in 1..Len(ngram) : ngram[i] \in NgramStopWords}) >= Len(ngram) - 1

\* the positions (n, i) of the loops of lines 264-266 and 368-370
NgramPositions(words) ==
    {<<n, i>> \in {2, 3, 4} \X (1..Len(words)) : i + n - 1 <= Len(words)}

NgramAt(words, pos) == SubSeq(words, pos[2], pos[2] + pos[1] - 1)

\* _extract_ngrams (lines 363-374)
ExtractNgrams(words) ==
    {NgramAt(words, pos) : pos \in {q \in NgramPositions(words) : ~IsStopwordNgram(NgramAt(words, q))}}

\* a faulty variant of lines 258-269: the tracker is started afresh by each text
UpdateNgramTrackerAfresh(counter, words) ==
    [g \in ExtractNgrams(words) |-> 1]

\* _update_ngram_tracker (lines 258-269): the Counter after the text is tracked
UpdateNgramTracker(counter, words) ==
    [g \in (DOMAIN counter) \cup ExtractNgrams(words) |->
        (IF g \in DOMAIN counter THEN counter[g] ELSE 0)
        + Cardinality({pos \in NgramPositions(words) : NgramAt(words, pos) = g})]

\* the total of all counts of a Counter
RECURSIVE Mass(_)
Mass(counter) ==
    IF DOMAIN counter = {} THEN 0
    ELSE LET g == CHOOSE x \in DOMAIN counter : TRUE
         IN  counter[g] + Mass([h \in (DOMAIN counter) \ {g} |-> counter[h]])

\* a faulty variant of line 329: only an overlap above one half rejects
NgramOverlapAboveHalf(ngrams, counter) ==
    /\ ngrams # {}
    /\ 2 * Cardinality({g \in ngrams : g \in DOMAIN counter /\ counter[g] >= 1})
         > Cardinality(ngrams)

\* _calculate_ngram_overlap (lines 376-382) compared with 0.3 (line 329)
NgramOverlapAbove(ngrams, counter) ==
    /\ ngrams # {}
    /\ 10 * Cardinality({g \in ngrams : g \in DOMAIN counter /\ counter[g] >= 1})
         > 3 * Cardinality(ngrams)

\* _create_semantic_fingerprint (lines 278-295): word -> count; the division by
\* the number of meaningful words scales every entry of one fingerprint alike
CreateSemanticFingerprint(words) ==
    LET meaningful == {i \in 1..Len(words) :
                          /\ WordOf(words[i]) \notin FingerprintStopWords
                          /\ WordOf(words[i]) \notin ShortWords}
    IN  [w \in {WordOf(words[i]) : i \in meaningful} |->
            Cardinality({i \in meaningful : WordOf(words[i]) = w})]

\* sum(f[x] for x in S)
RECURSIVE SumOver(_, _)
SumOver(S, f) ==
    IF S = {} THEN 0
    ELSE LET x == CHOOSE y \in S : TRUE IN f[x] + SumOver(S \ {x}, f)

\* _semantic_fingerprint_similarity (lines 297-313) compared with 0.65 (line 339):
\* dot / (norm1 * norm2) > 0.65, squared and cleared of fractions
FingerprintSimilarityAbove(fp1, fp2) ==
    LET dot == SumOver((DOMAIN fp1) \cap (DOMAIN fp2), [w \in (DOMAIN fp1) \cap (DOMAIN fp2) |-> fp1[w] * fp2[w]])
        sq1 == SumOver(DOMAIN fp1, [w \in DOMAIN fp1 |-> fp1[w] * fp1[w]])
        sq2 == SumOver(DOMAIN fp2, [w \in DOMAIN fp2 |-> fp2[w] * fp2[w]])
    IN  /\ DOMAIN fp1 # {} /\ DOMAIN fp2 # {}
        /\ 400 * dot * dot > 169 * sq1 * sq2

\* _check_semantic_similarity (lines 384-403) compared with 0.50:
\* 0.4 * jaccard + 0.6 * ratio > 0.5
SemanticSimilarityAbove(a, b) ==
    LET t1 == {ParagraphTokens(a)[i] : i \in 1..Len(ParagraphTokens(a))}
        t2 == {ParagraphTokens(b)[i] : i \in 1..Len(ParagraphTokens(b))}
    IN  4000 * Cardinality(t1 \cap t2) + 6 * SeqRatio(a, b) * Cardinality(t1 \cup t2)
          > 5000 * Cardinality(t1 \cup t2)
----------------------------------------------------------------------------
(* RAGSystem of src/src/rag_system.py: parsing, filtering, deduplication *)

\* the paragraphs _parse_bullets (lines 176-233) keeps: P5 opens with the
\* skip phrase 'here are'; the others are complete and of 50 to 800 characters
Parsed(p) ==
    /\ p.name # "P5"
    /\ ParagraphLen(p.name) >= 50 /\ ParagraphLen(p.name) <= 800

ParseParagraphs(response) == SelectSeq(response, Parsed)

\* _is_good_bullet (lines 442-475): P6 has none of the good indicators
IsGoodParagraph(p) ==
    /\ ParagraphLen(p.name) >= 50 /\ ParagraphLen(p.name) <= 800
    /\ p.name # "P6"

\* _filter_bullets (lines 405-440), the loop from its i-th bullet on
RECURSIVE FilterParagraphs(_, _, _)
FilterParagraphs(bullets, filtered, generated) ==
    IF bullets = <<>> THEN filtered
    ELSE LET bullet == Head(bullets)
             is_duplicate ==
                 \E i \in 1..Len(generated) :
                     SemanticSimilarityAbove(bullet.name, generated[i].name)
             is_duplicate_local ==
                 \E i \in 1..Len(filtered) :
                     SemanticSimilarityAbove(bullet.name, filtered[i].name)
         IN  FilterParagraphs(Tail(bullets),
                 IF IsGoodParagraph(bullet) /\ ~is_duplicate /\ ~is_duplicate_local
                 THEN Append(filtered, bullet) ELSE filtered,
                 generated)

\* _deduplicate_advanced (lines 315-361), the loop from its i-th bullet on
RECURSIVE DeduplicateAdvanced(_, _, _, _)
DeduplicateAdvanced(bullets, result, counter, fingerprints) ==
    IF bullets = <<>> THEN result
    ELSE LET bullet == Head(bullets)
             words == ParagraphTokens(bullet.name)
             high_overlap == NgramOverlapAbove(ExtractNgrams(words), counter)
             is_semantically_duplicate ==
                 \E i \in 1..Len(fingerprints) :
                     FingerprintSimilarityAbove(CreateSemanticFingerprint(words),
                                                fingerprints[i])
             is_local_duplicate ==
                 \E i \in 1..Len(result) :
                     SemanticSimilarityAbove(bullet.name, result[i].name)
         IN  DeduplicateAdvanced(Tail(bullets),
                 IF ~high_overlap /\ ~is_semantically_duplicate /\ ~is_local_duplicate
                 THEN Append(result, bullet) ELSE result,
                 counter, fingerprints)

\* lines 44-67 of generate_bullets_for_outline_item: the paragraphs of a section
\* whose search found chunks or not, given the answer of the language model
ParagraphsFor(found, response, generated, counter, fingerprints) ==
    IF ~found THEN <<>>
    ELSE Take(DeduplicateAdvanced(
                  FilterParagraphs(ParseParagraphs(response), <<>>, generated),
                  <<>>, counter, fingerprints),
              MaxParagraphs)

\* lines 53-57 of generate_bullets_for_outline_item: what _filter_bullets returns
FilteredFor(found, response, generated) ==
    IF ~found THEN <<>>
    ELSE FilterParagraphs(ParseParagraphs(response), <<>>, generated)

\* lines 69-86: the trackers after the paragraphs of a section are tracked
RECURSIVE TrackNgrams(_, _)
TrackNgrams(counter, paragraphs) ==
    IF paragraphs = <<>> THEN counter
    ELSE TrackNgrams(UpdateNgramTracker(counter, ParagraphTokens(Head(paragraphs).name)),
                     Tail(paragraphs))

\* a faulty variant of line 80: a text is appended when it passes the filters
\* and again when it is returned
TrackTextsTwice(texts, paragraphs) ==
    texts \o [i \in 1..Len(paragraphs) |-> Lower(paragraphs[i])]
          \o [i \in 1..Len(paragraphs) |-> Lower(paragraphs[i])]

TrackTexts(texts, paragraphs) ==
    texts \o [i \in 1..Len(paragraphs) |-> Lower(paragraphs[i])]

TrackFingerprints(fingerprints, paragraphs) ==
    fingerprints \o [i \in 1..Len(paragraphs) |->
                        CreateSemanticFingerprint(ParagraphTokens(paragraphs[i].name))]

\* the titles of the outline items of a run
SectionTitles == {"S1", "S2"}

NoveltyOutlines ==
    UNION {[1..n -> SectionTitles] : n \in 1..MaxSections}

\* the answers of the language model
NoveltyResponses ==
    LET P(n) == Paragraph(n)
    IN  {<<>>, <<P("P1")>>, <<P("P2")>>, <<P("P1"), P("P2")>>, <<P("P2"), P("P1")>>,
         <<P("P3")>>, <<P("P3"), P("P4")>>, <<P("P1"), P("P4")>>, <<P("P5"), P("P6")>>,
         <<P("P6"), P("P7"), P("P8")>>}

\* a new RAGSystem (lines 15-21) that has not generated yet
NoveltyInit ==
    /\ ChunkIdle /\ StoreIdle /\ RagIdle
    /\ NoveltyIdle
    /\ OutlineIdle
    /\ ServiceIdle

noveltyFrame == <<chunkVars, storeVars, ragVars, outlineVars, serviceVars>>

\* a faulty variant of line 490: the n-gram counts of the run before are kept
KeptCounter == covered_ngrams

\* Counter() (lines 20 and 490)
NewCounter == <<>>

\* generate_comprehensive_bullets (lines 477-508), up to its loop: the reset
GenerateComprehensive ==
    /\ nv_pc \in {"idle", "returned"}
    /\ run_no < MaxRuns
    /\ \E items \in NoveltyOutlines : nv_outline' = items
    /\ seen_bullets' = <<>>
    /\ all_generated_texts' = <<>>
    /\ covered_ngrams' = NewCounter
    /\ semantic_fingerprints' = <<>>
    /\ paragraph_results' = <<>>
    /\ nv_pos' = 1
    /\ nv_pc' = "running"
    /\ run_no' = run_no + 1
    /\ earlier' = earlier \cup {accepted[i] : i \in 1..Len(accepted)}
    /\ accepted' = <<>>
    /\ last_section' = NoSection
    /\ UNCHANGED noveltyFrame

\* one pass of the loop of lines 494-504: generate_bullets_for_outline_item
\* (lines 23-89) for the next outline item
GenerateSection ==
    /\ nv_pc = "running"
    /\ nv_pos <= Len(nv_outline)
    /\ \E found \in BOOLEAN :
       \E response \in (IF found THEN NoveltyResponses ELSE {<<>>}) :
       \E paragraphs \in {ParagraphsFor(found, response, all_generated_texts,
                                         covered_ngrams, semantic_fingerprints)} :
         LET title == nv_outline[nv_pos]
         IN  /\ last_section' =
                    [found |-> found, response |-> response,
                     generated |-> all_generated_texts, counter |-> covered_ngrams,
                     fingerprints |-> semantic_fingerprints,
                     filtered |-> FilteredFor(found, response, all_generated_texts),
                     paragraphs |-> paragraphs]
             /\ seen_bullets' = TrackTexts(seen_bullets, paragraphs)
             /\ all_generated_texts' = TrackTexts(all_generated_texts, paragraphs)
             /\ covered_ngrams' = TrackNgrams(covered_ngrams, paragraphs)
             /\ semantic_fingerprints' = TrackFingerprints(semantic_fingerprints, paragraphs)
             /\ paragraph_results' =
                    [t \in (DOMAIN paragraph_results) \cup {title} |->
                        IF t = title THEN paragraphs ELSE paragraph_results[t]]
             /\ accepted' = accepted \o paragraphs
    /\ nv_pos' = nv_pos + 1
    /\ UNCHANGED <<nv_outline, nv_pc, run_no, earlier>>
    /\ UNCHANGED noveltyFrame

\* line 508: return results
ReturnParagraphs ==
    /\ nv_pc = "running"
    /\ nv_pos > Len(nv_outline)
    /\ nv_pc' = "returned"
    /\ UNCHANGED <<all_generated_texts, seen_bullets, covered_ngrams, semantic_fingerprints,
                   paragraph_results, nv_outline, nv_pos, run_no, accepted, earlier,
                   last_section>>
    /\ UNCHANGED noveltyFrame

NoveltyNext ==
    \/ GenerateComprehensive
    \/ GenerateSection
    \/ ReturnParagraphs

NoveltySpec == NoveltyInit /\ [][NoveltyNext]_vars
----------------------------------------------------------------------------
(* RAGSystem of src/src/rag_system.py: the claims about the novelty filter *)

FingerprintOf(p) == CreateSemanticFingerprint(ParagraphTokens(p.name))

\* C11: no paragraph is accepted whose semantic fingerprint has a cosine
\* similarity above 0.65 with the fingerprint of a paragraph accepted before it
\* in the same run, also when the two share no n-gram.
C11_NearDuplicateRejected ==
    \A i, j \in 1..Len(accepted) :
        i < j => ~FingerprintSimilarityAbove(FingerprintOf(accepted[j]),
                                             FingerprintOf(accepted[i]))

\* C12: within a run the total of the counts of covered_ngrams never decreases
\* from one step to the next, and after every step semantic_fingerprints and
\* all_generated_texts are as long as the paragraphs accepted so far in the run.
C12_TrackersGrowWithAccepted ==
    [][/\ run_no' = run_no => Mass(covered_ngrams') >= Mass(covered_ngrams)
       /\ Len(semantic_fingerprints') = Len(all_generated_texts')
       /\ Len(all_generated_texts') = Len(accepted')]_vars

\* two sections of one run have each had a paragraph accepted
C12_Witness ==
    /\ nv_pc = "running"
    /\ nv_pos = 3
    /\ Len(accepted) >= 2
    /\ paragraph_results[nv_outline[2]] # <<>>
    /\ Mass(covered_ngrams) > Mass(UpdateNgramTracker(<<>>, ParagraphTokens(accepted[1].name)))

\* C13: during and after every run of generate_comprehensive_bullets the novelty
\* state (seen texts, n-gram counts, fingerprints) is exactly what the paragraphs
\* accepted in this run put there, so nothing accepted in an earlier run on the
\* same RAGSystem can reject a paragraph of a later run.
C13_RunStartsFromEmptyState ==
    nv_pc \in {"running", "returned"} =>
        /\ all_generated_texts = TrackTexts(<<>>, accepted)
        /\ seen_bullets = TrackTexts(<<>>, accepted)
        /\ covered_ngrams = TrackNgrams(<<>>, accepted)
        /\ semantic_fingerprints = TrackFingerprints(<<>>, accepted)

\* a later run accepts a paragraph that an earlier run had accepted
C13_Witness ==
    /\ run_no = 2
    /\ \E i \in 1..Len(accepted) : accepted[i] \in earlier
----------------------------------------------------------------------------
(* Claims about sections of the backend RAGSystem *)

\* the outline item the i-th entry of section_log is about
LoggedItem(i) == outline_items[i]

\* the section's retrieval found nothing, or its call of the language model raised
FailedSection(i) ==
    \/ section_log[i].searched /\ section_log[i].hits = <<>>
    \/ section_log[i].llm_failed

\* C14 as stated: a section whose retrieval yields no candidate or whose
\* generation call fails does not abort the run and its result is empty or
\* the outline description alone.
C14_AsStated ==
    \A i \in 1..Len(section_log) :
        FailedSection(i) =>
            /\ rag_pc \in {"loop", "returned"}
            /\ i <= Len(results)
            /\ \/ results[i].bullets = <<>>
               \/ results[i].bullets = <<StripText(LoggedItem(i).description)>>

\* C14 (amended): such a section does not abort the run, the loop goes on to
\* the next outline item, and the section's result is empty, or the expanded
\* outline description alone, or - when the narrative has text for the section -
\* that text alone.
C14_FailureIsLocal ==
    \A i \in 1..Len(section_log) :
        FailedSection(i) =>
            /\ rag_pc \in {"loop", "returned"}
            /\ i <= Len(results)
            /\ item_pos >= i
            /\ results[i].title = LoggedItem(i).title
            /\ \/ results[i].bullets = <<>>
               \/ /\ LoggedItem(i).description # NoText
                  /\ results[i].bullets =
                         <<ExpandOutlineDescription(StripText(LoggedItem(i).description))>>
               \/ /\ ExtractSectionText(LoggedItem(i)) # NoText
                  /\ results[i].bullets = <<StripText(ExtractSectionText(LoggedItem(i)))>>

\* the language model failed for the first section and the second section was
\* processed all the same and got bullets
C14_Witness ==
    /\ Len(section_log) = 2
    /\ section_log[1].llm_failed
    /\ Len(results) = 2
    /\ results[2].bullets # <<>>
    /\ section_log[2].llm_called /\ ~section_log[2].llm_failed

\* how often the chunk with this id occurs among the hits
Occurrences(hits, id) == Cardinality({k \in 1..Len(hits) : hits[k].chunk.id = id})

\* C15: the candidates handed to _prepare_context are in ascending order of
\* (page_number, chunk_index), and they are the hits of the similarity search,
\* each as often as the search returned it, whatever their order by score was.
C15_ContextIsChronological ==
    \A i \in 1..Len(section_log) :
        LET context == section_log[i].context
            hits == section_log[i].hits
        IN  /\ \A a, b \in 1..Len(context) :
                   a < b => KeyLessOrEqual(ChronologicalKey(context[a]),
                                           ChronologicalKey(context[b]))
            /\ context # <<>> =>
                   /\ Len(context) = Len(hits)
                   /\ \A k \in 1..Len(hits) :
                          Occurrences(context, hits[k].chunk.id) =
                              Occurrences(hits, hits[k].chunk.id)

\* a context was prepared from hits that the search returned in another order
\* than that of their pages and positions, and the section got its bullets
C15_Witness ==
    \E i \in 1..Len(section_log) :
        /\ section_log[i].context # <<>>
        /\ section_log[i].context # section_log[i].hits
        /\ section_log[i].hits[1].score > section_log[i].hits[2].score
        /\ section_log[i].hits[1].chunk.page_number > section_log[i].hits[2].chunk.page_number
        /\ i <= Len(results)

\* C16: the parts of a section's query are, in this order, the description twice
\* when it is not empty, the title, and the query keywords of the section's type
\* when the table has any for it; a description that is not empty precedes the
\* title.
C16_QueryOrder ==
    \A i \in 1..Len(section_log) :
        LET query == section_log[i].query
            item == LoggedItem(i)
            keywords == KeywordsOf(DetermineSectionType(item))
            n == IF item.description # NoText THEN 3 ELSE 1
        IN  /\ Len(query) = n + (IF keywords # "" THEN 1 ELSE 0)
            /\ item.description # NoText =>
                   query[1] = item.description /\ query[2] = item.description
            /\ query[n].body = item.title
            /\ keywords # "" => query[n + 1].body = keywords

\* a section with a description and with keywords for its type was processed
C16_Witness ==
    \E i \in 1..Len(section_log) :
        /\ LoggedItem(i).description # NoText
        /\ Len(section_log[i].query) = 4
        /\ section_log[i].query[4].body # ""
        /\ section_log[i].searched
----------------------------------------------------------------------------
(* OutlineGenerator.generate_outline (outline_generator.py) *)

\* the most chunks generate_outline is given
MaxOutlineChunks == 2
\* the greatest max_sections generate_outline is given
MaxOutline == 3

\* topic_order (lines 237-250)
topic_order ==
    <<"Context", "Problem Overview", "User Research", "Key Insights", "Ideation",
      "Chosen direction", "User Flow", "Wireframes", "Data Model", "Evaluation / Testing",
      "Final Design", "Next Steps">>

\* the keys of topic_patterns in the order of the table that is in force (lines
\* 316-348; it replaces the table of lines 253-313)
PatternTopics ==
    <<"Problem Overview", "User Research", "Key Insights", "Design Goals",
      "Chosen direction", "User Flow", "Wireframes", "System / Data Model",
      "Evaluation / Testing", "Next Steps">>

InSeq(x, seq) == \E i \in 1..Len(seq) : seq[i] = x

IndexIn(x, seq) == CHOOSE i \in 1..Len(seq) : seq[i] = x

\* the sets of topics whose patterns the text of one chunk matches (line 357)
ChunkMatches ==
    {{}, {"Problem Overview"}, {"Next Steps"}, {"Design Goals"}, {"System / Data Model"},
     {"System / Data Model", "Design Goals"}, {"Next Steps", "Design Goals"},
     {"Next Steps", "Problem Overview"}}

OutlineChunks == [page_number : 1..MaxPage, matches : ChunkMatches]

OutlineChunkLists == UNION {[1..n -> OutlineChunks] : n \in 0..MaxOutlineChunks}

\* lines 356-368 for one chunk: the loop over the table from its k-th topic on
RECURSIVE ScanTopics(_, _, _)
ScanTopics(candidates, chunk, k) ==
    IF k > Len(PatternTopics) THEN candidates
    ELSE LET topic == PatternTopics[k]
             known == \E i \in 1..Len(candidates) : candidates[i].topic = topic
             updated ==
                 IF topic \notin chunk.matches THEN candidates
                 ELSE IF ~known
                 THEN Append(candidates, [topic |-> topic, first_page |-> chunk.page_number])
                 ELSE [i \in 1..Len(candidates) |->
                          IF candidates[i].topic = topic
                          THEN [candidates[i] EXCEPT
                                   !.first_page = Min(candidates[i].first_page,
                                                      chunk.page_number)]
                          ELSE candidates[i]]
         IN  ScanTopics(updated, chunk, k + 1)

\* a faulty variant of line 377: the remaining topics stay as they were found
KeepAsFound(remaining) == remaining

\* a pair put into a sorted list behind every pair whose page is not greater
RECURSIVE InsertByPage(_, _)
InsertByPage(sorted, pair) ==
    IF sorted = <<>> THEN <<pair>>
    ELSE IF Head(sorted).first_page <= pair.first_page
         THEN <<Head(sorted)>> \o InsertByPage(Tail(sorted), pair)
         ELSE <<pair>> \o sorted

\* remaining.sort(key=lambda x: x[1]) (line 377): a stable sort
RECURSIVE SortByFirstPage(_)
SortByFirstPage(remaining) ==
    IF remaining = <<>> THEN <<>>
    ELSE InsertByPage(SortByFirstPage(SubSeq(remaining, 1, Len(remaining) - 1)),
                      remaining[Len(remaining)])

\* lines 378-381: the remaining topics are appended while there is room
RECURSIVE AppendRemaining(_, _, _)
AppendRemaining(ordered, remaining, limit) ==
    IF remaining = <<>> \/ Len(ordered) >= limit THEN ordered
    ELSE AppendRemaining(Append(ordered, Head(remaining).topic), Tail(remaining), limit)

\* lines 370-381
OrderedTopics(candidates, limit) ==
    LET found(t) == \E i \in 1..Len(candidates) : candidates[i].topic = t
        canonical == SelectSeq(topic_order, found)
        not_ordered(c) == ~InSeq(c.topic, canonical)
        remaining == SortByFirstPage(SelectSeq(candidates, not_ordered))
    IN  IF Len(canonical) < limit THEN AppendRemaining(canonical, remaining, limit)
        ELSE canonical

\* lines 383-403: the OutlineItems of ordered_topics[:max_sections]; max_sections
\* is not negative
OutlineItemsOf(ordered, limit) ==
    [i \in 1..Min(limit, Len(ordered)) |-> [title |-> ordered[i], level |-> 1, order |-> i]]

\* a call generate_outline(pdf_title, chunks, max_sections)
OutlineInit ==
    /\ ChunkIdle /\ StoreIdle /\ RagIdle /\ NoveltyIdle /\ ServiceIdle
    /\ og_chunks \in OutlineChunkLists
    /\ max_sections \in 0..MaxOutline
    /\ og_pos = 1
    /\ topic_candidates = <<>>
    /\ ordered_topics = <<>>
    /\ generated_outline = <<>>
    /\ og_pc = "scan"

outlineFrame ==
    <<chunkVars, storeVars, ragVars, noveltyVars, serviceVars, og_chunks, max_sections>>

\* one turn of the loop of lines 352-368
ScanChunk ==
    /\ og_pc = "scan"
    /\ og_pos <= Len(og_chunks)
    /\ topic_candidates' = ScanTopics(topic_candidates, og_chunks[og_pos], 1)
    /\ og_pos' = og_pos + 1
    /\ UNCHANGED <<ordered_topics, generated_outline, og_pc>>
    /\ UNCHANGED outlineFrame

\* lines 370-381
OrderTopics ==
    /\ og_pc = "scan"
    /\ og_pos > Len(og_chunks)
    /\ ordered_topics' = OrderedTopics(topic_candidates, max_sections)
    /\ og_pc' = "build"
    /\ UNCHANGED <<og_pos, topic_candidates, generated_outline>>
    /\ UNCHANGED outlineFrame

\* lines 383-406
BuildOutline ==
    /\ og_pc = "build"
    /\ generated_outline' = OutlineItemsOf(ordered_topics, max_sections)
    /\ og_pc' = "returned"
    /\ UNCHANGED <<og_pos, topic_candidates, ordered_topics>>
    /\ UNCHANGED outlineFrame

OutlineNext ==
    \/ ScanChunk
    \/ OrderTopics
    \/ BuildOutline

OutlineSpec == OutlineInit /\ [][OutlineNext]_vars

\* the topics observed in the chunks, and the earliest page of each
Detected == UNION {og_chunks[i].matches : i \in 1..Len(og_chunks)}

EarliestPage(topic) ==
    SetMin({og_chunks[i].page_number : i \in {k \in 1..Len(og_chunks) : topic \in og_chunks[k].matches}})

\* topic a comes before topic b in the order of the outline: canonical topics
\* first and in canonical order, the others by their earliest page
Precedes(a, b) ==
    IF InSeq(a, topic_order)
    THEN InSeq(b, topic_order) => IndexIn(a, topic_order) < IndexIn(b, topic_order)
    ELSE ~InSeq(b, topic_order) /\ EarliestPage(a) <= EarliestPage(b)

\* C17: generate_outline returns Min(max_sections, number of detected topics)
\* items, item i having order i; their titles are detected topics without
\* repetition, the canonical ones first and in canonical order, then the others
\* by ascending earliest page; and a detected topic that is left out comes
\* after every title that is kept.
C17_OutlineOrder ==
    og_pc = "returned" =>
        LET n == Len(generated_outline)
            titles == {generated_outline[i].title : i \in 1..n}
        IN  /\ n <= max_sections
            /\ n = Min(max_sections, Cardinality(Detected))
            /\ \A i \in 1..n : generated_outline[i].order = i
            /\ titles \subseteq Detected
            /\ Cardinality(titles) = n
            /\ \A i, j \in 1..n :
                   i < j => Precedes(generated_outline[i].title, generated_outline[j].title)
            /\ \A t \in Detected \ titles :
                   \A i \in 1..n : Precedes(generated_outline[i].title, t)

\* an outline that was cut at max_sections, with a canonical topic before a
\* topic outside the canonical order that was found later in the chunk list
\* but on an earlier page than the topic left out
C17_Witness ==
    /\ og_pc = "returned"
    /\ Len(generated_outline) = 2
    /\ Cardinality(Detected) = 3
    /\ generated_outline[1].title = "Next Steps"
    /\ generated_outline[2].title = "System / Data Model"
    /\ topic_candidates[1].topic = "Design Goals"
    /\ EarliestPage("System / Data Model") < EarliestPage("Design Goals")
----------------------------------------------------------------------------
(* Claims about the service before its store exists *)

\* C18: while neither create_embeddings nor load_vector_store has succeeded,
\* search_similar_chunks and save_vector_store raise ValueError, the search
\* returns no results and the save writes no file; and create_embeddings on an
\* empty chunk list raises and leaves the service without a store.
C18_UninitialisedServiceFails ==
    [][~vector_store.initialised =>
          /\ ret'.op = "search" => ret'.status = "ValueError" /\ ret'.results = <<>>
          /\ ret'.op = "save" => ret'.status = "ValueError" /\ disk' = disk
          /\ (ret'.op = "create_embeddings" /\ ret'.status = "ValueError") =>
                 ~vector_store'.initialised]_vars

\* a search on a service without a store has raised ValueError
C18_Witness ==
    /\ ~vector_store.initialised
    /\ ret.op = "search"
    /\ ret.status = "ValueError"
----------------------------------------------------------------------------
(* Claims about the pages and the text of the chunks *)

\* the structures the parser makes of the documents
ParsedStructures == {ExtractTextAndStructure(d) : d \in Documents}

\* C19: a chunk holds only text of its own page: in a chunk of a parsed
\* document, every letter is the letter of the page the chunk is tagged with.
C19_ChunkTextFromOwnPage ==
    pdf_structure \in ParsedStructures =>
        \A i \in 1..Len(chunks) :
            \A k \in 1..Len(chunks[i].text) :
                chunks[i].text[k] \in {"a", "b"} =>
                    chunks[i].text[k] = PageLetter(chunks[i].page_number)

\* C20: the text of every chunk is not empty and neither begins nor ends with
\* white space.
C20_ChunkTextTrimmed ==
    \A i \in 1..Len(chunks) :
        /\ chunks[i].text # <<>>
        /\ ~IsSpace(chunks[i].text[1])
        /\ ~IsSpace(chunks[i].text[Len(chunks[i].text)])
----------------------------------------------------------------------------
(* Claims about ties in the outline *)

\* C21: two topics outside the canonical order that have the same earliest
\* page stand in the outline in the order of their indices in the pattern
\* table, whichever of them the chunks matched first.
C21_TiesByTableIndex ==
    og_pc = "returned" =>
        \A i, j \in 1..Len(generated_outline) :
            LET a == generated_outline[i].title
                b == generated_outline[j].title
            IN  (/\ i < j
                 /\ ~InSeq(a, topic_order) /\ ~InSeq(b, topic_order)
                 /\ EarliestPage(a) = EarliestPage(b))
                    => IndexIn(a, PatternTopics) < IndexIn(b, PatternTopics)
----------------------------------------------------------------------------
(* RAGSystem of src/src/rag_system.py: the claims about its filters *)

\* the n-grams of a paragraph that covered_ngrams held when its section began
CoveredNgrams(p, section) ==
    {g \in ExtractNgrams(ParagraphTokens(p.name)) : g \in DOMAIN section.counter}

\* more than 30% of the n-grams of the paragraph were covered
OverlapAboveThreshold(p, section) ==
    10 * Cardinality(CoveredNgrams(p, section))
        > 3 * Cardinality(ExtractNgrams(ParagraphTokens(p.name)))

\* the fingerprint of the paragraph is close to one stored before its section
FingerprintKnown(p, section) ==
    \E i \in 1..Len(section.fingerprints) :
        FingerprintSimilarityAbove(FingerprintOf(p), section.fingerprints[i])

\* the paragraph is close to another paragraph the section returned
CloseToReturned(p, section) ==
    \E i \in 1..Len(section.paragraphs) :
        /\ section.paragraphs[i] # p
        /\ SemanticSimilarityAbove(p.name, section.paragraphs[i].name)

\* C22: a paragraph that reaches _deduplicate_advanced with more than 30% of its
\* extracted n-grams already in covered_ngrams is not returned; one with at most
\* 30% (none extracted counts as an overlap of 0) is returned unless the
\* fingerprint check or the check against the section's own batch rejects it.
C22_NgramGate ==
    \A i \in 1..Len(last_section.filtered) :
        LET p == last_section.filtered[i]
        IN  /\ OverlapAboveThreshold(p, last_section)
                => ~InSeq(p, last_section.paragraphs)
            /\ (/\ ~OverlapAboveThreshold(p, last_section)
                /\ ~FingerprintKnown(p, last_section)
                /\ ~CloseToReturned(p, last_section))
                => InSeq(p, last_section.paragraphs)

\* one section's answer holds a paragraph with 4 of its 13 n-grams covered, which
\* no other check would reject and which is not returned, and a paragraph with
\* no n-gram at all, which is returned
C22_Witness ==
    \E i, j \in 1..Len(last_section.filtered) :
        LET p == last_section.filtered[i]
            q == last_section.filtered[j]
        IN  /\ OverlapAboveThreshold(p, last_section)
            /\ 2 * Cardinality(CoveredNgrams(p, last_section))
                 < Cardinality(ExtractNgrams(ParagraphTokens(p.name)))
            /\ ~FingerprintKnown(p, last_section)
            /\ ~InSeq(p, last_section.paragraphs)
            /\ ExtractNgrams(ParagraphTokens(q.name)) = {}
            /\ last_section.counter # <<>>
            /\ InSeq(q, last_section.paragraphs)

\* the paragraph is close to a text generated before its section
CloseToGenerated(p, section) ==
    \E i \in 1..Len(section.generated) :
        SemanticSimilarityAbove(p.name, section.generated[i].name)

\* the paragraphs of the section's answer that a check against the section's
\* own batch rejected: in _filter_bullets (lines 427-435) or in
\* _deduplicate_advanced (lines 346-355)
RejectedLocally(section) ==
    {p \in {ParseParagraphs(section.response)[i] :
                i \in 1..Len(ParseParagraphs(section.response))} :
        \/ /\ section.found
           /\ IsGoodParagraph(p)
           /\ ~CloseToGenerated(p, section)
           /\ ~InSeq(p, section.filtered)
        \/ /\ InSeq(p, section.filtered)
           /\ ~OverlapAboveThreshold(p, section)
           /\ ~FingerprintKnown(p, section)
           /\ ~InSeq(p, section.paragraphs)}

\* C23: a paragraph rejected by a check against its own batch is similar
\* (above 0.50) to a paragraph that was accepted for the section.
C23_LocalRejectionByAccepted ==
    \A p \in RejectedLocally(last_section) : CloseToReturned(p, last_section)

\* C26: no two fingerprints stored in semantic_fingerprints have a cosine
\* similarity above 0.65, whether they come from different sections or from
\* the batch of one section.
C26_FingerprintsPairwiseApart ==
    \A i, j \in 1..Len(semantic_fingerprints) :
        i < j => ~FingerprintSimilarityAbove(semantic_fingerprints[j],
                                             semantic_fingerprints[i])

\* C28: the results a run returns hold one entry for each outline item, and
\* every paragraph recorded in the novelty state during the run stands in the
\* returned results, also when two outline items have the same title.
C28_OneEntryPerItem ==
    nv_pc = "returned" =>
        /\ Cardinality(DOMAIN paragraph_results) = Len(nv_outline)
        /\ \A i \in 1..Len(all_generated_texts) :
               \E t \in DOMAIN paragraph_results :
                   InSeq(all_generated_texts[i], TrackTexts(<<>>, paragraph_results[t]))

\* C30: within a run, all_generated_texts, covered_ngrams and
\* semantic_fingerprints change only in that the entries of the paragraphs
\* generate_bullets_for_outline_item returns are added to them: what
\* _filter_bullets and _deduplicate_advanced examine and reject leaves no trace.
C30_FiltersLeaveStateAlone ==
    [][run_no' = run_no =>
        LET returned == IF nv_pos' = nv_pos THEN <<>>
                        ELSE paragraph_results'[nv_outline[nv_pos]]
        IN  /\ all_generated_texts' =
                   all_generated_texts \o [i \in 1..Len(returned) |-> Lower(returned[i])]
            /\ covered_ngrams' = TrackNgrams(covered_ngrams, returned)
            /\ semantic_fingerprints' = TrackFingerprints(semantic_fingerprints, returned)]_vars

\* a section has run on a state that was not empty; _filter_bullets dropped a
\* paragraph of its answer, _deduplicate_advanced dropped another, a third was
\* returned, and the state holds one text more than before
C30_Witness ==
    /\ last_section.generated # <<>>
    /\ Len(last_section.filtered) < Len(ParseParagraphs(last_section.response))
    /\ Len(last_section.paragraphs) < Len(last_section.filtered)
    /\ Len(last_section.paragraphs) = 1
    /\ Len(all_generated_texts) = Len(last_section.generated) + 1
----------------------------------------------------------------------------
(* Claims about the texts the backend RAGSystem emits *)

\* the quality gate as the claim words it: at least 20 characters, no ellipsis
\* at the end, none of the disallowed phrases
PassesGate(t) ==
    /\ TextLen(t) >= 20
    /\ ~EndsIncomplete(t)
    /\ ~HasBadPhrase(t.body)

\* C24: every bullet text generate_bullets_for_outline_item emits, on whichever
\* path (bullets of the language model, narrative text, expansion, merged
\* outline description), passes the quality gate.
C24_EmittedPassedGate ==
    \A i \in 1..Len(results) :
        \A m \in 1..Len(results[i].bullets) : PassesGate(results[i].bullets[m])

\* one entry for each of the first 14 candidates whose cleaned text is longer
\* than 30 characters, in their order
RECURSIVE SubstantialParts(_, _)
SubstantialParts(candidates, i) ==
    IF i > Min(Len(candidates), ContextLimit) THEN <<>>
    ELSE (IF Substantial(candidates[i].chunk.text)
          THEN <<[source |-> i, id |-> candidates[i].chunk.id]>> ELSE <<>>)
         \o SubstantialParts(candidates, i + 1)

\* C29: on every non-empty list of candidates _prepare_context returns without
\* raising, and its context holds one entry for each of the first 14
\* candidates whose cleaned text is longer than 30 characters and no other.
C29_ContextOfSubstantialCandidates ==
    \A i \in 1..Len(section_log) :
        LET candidates == section_log[i].context
        IN  candidates # <<>> =>
                /\ ~ContextParts(candidates).raised
                /\ ContextParts(candidates).parts = SubstantialParts(candidates, 1)
----------------------------------------------------------------------------
(* PDFProcessingService (src/src/backend/processing_service.py): one service,
   as api.py keeps it (line 142), serving requests one after the other *)

\* the most requests one service is followed through
MaxRequests == 2

\* min(request.chunk_size, 2000) (lines 60, 203 and 604)
ChunkSizeCap == 2000
\* max(request.overlap, 200) (lines 61, 204 and 605)
OverlapFloor == 200

\* chunk_size and overlap of the requests: the defaults of api.py (500, 50), a
\* small chunk size, and a chunk size above the cap
RequestSizes ==
    {[chunk_size |-> 500, overlap |-> 50],
     [chunk_size |-> 100, overlap |-> 50],
     [chunk_size |-> 3000, overlap |-> 400]}

\* lines 60-61: the chunk_size and overlap the service hands to chunk_text
ChunkSettings(request) ==
    [chunk_size |-> Min(request.chunk_size, ChunkSizeCap),
     overlap |-> Max(request.overlap, OverlapFloor)]

\* the vector stores create_embeddings builds from the chunks of a document
ServiceStores == {store \in RagStores : store.initialised /\ Len(store.chunks) <= 2}

\* the outlines generate_outline or generate_outline_from_narrative gives
ServiceOutlines ==
    {<<item>> : item \in {i \in OutlineItems :
                              i.title = "T1" /\ i.description \in {NoText, Text(D1, TRUE, FALSE)}}}

\* request.narrative of a RegenerateContentRequest: None, or a narrative with or
\* without a section for the outline item
ServiceNarratives == {n \in Narratives : n.set => n.sections["T2"] = NoText}

\* request.tone
Tones == {"None", "formal"}

\* a new service (lines 23-35), with the RAGSystem and the ChunkingEmbeddingService
\* it constructs
ServiceInit ==
    /\ ChunkIdle /\ StoreIdle /\ RagIdle /\ NoveltyIdle /\ OutlineIdle
    /\ ServiceIdle

serviceFrame == <<chunkVars, noveltyVars, outlineVars, disk, ret, is_research_section>>

\* process_pdf (lines 37-100), up to the loop of generate_comprehensive_bullets:
\* the document is chunked with the adjusted settings, embedded and outlined;
\* self.rag_system.narrative and tone are not assigned
ProcessPdf ==
    /\ rag_pc # "loop"
    /\ served < MaxRequests
    /\ \E request \in RequestSizes, store \in ServiceStores, items \in ServiceOutlines :
         /\ svc_request' = request
         /\ chunk_call' = ChunkSettings(request)
         /\ vector_store' = store
         /\ outline_items' = items
    /\ svc_op' = "process_pdf"
    /\ served' = served + 1
    /\ all_seen_bullets' = <<>>
    /\ results' = <<>>
    /\ item_pos' = 0
    /\ section_log' = <<>>
    /\ rag_pc' = "loop"
    /\ UNCHANGED <<narrative, tone>>
    /\ UNCHANGED serviceFrame

\* regenerate_content_with_focus (lines 582-633), up to the loop of
\* generate_comprehensive_bullets: the vector store is loaded, or rebuilt from
\* the document when there is no index file; narrative and tone are set
RegenerateContentWithFocus ==
    /\ rag_pc # "loop"
    /\ served < MaxRequests
    /\ \E request \in RequestSizes, store \in ServiceStores, items \in ServiceOutlines,
          index_exists \in BOOLEAN :
         /\ svc_request' = request
         /\ chunk_call' = IF index_exists THEN chunk_call ELSE ChunkSettings(request)
         /\ vector_store' = store
         /\ outline_items' = items
    /\ \E request_narrative \in ServiceNarratives, request_tone \in Tones :
         /\ narrative' = request_narrative
         /\ tone' = request_tone
    /\ svc_op' = "regenerate_content_with_focus"
    /\ served' = served + 1
    /\ all_seen_bullets' = <<>>
    /\ results' = <<>>
    /\ item_pos' = 0
    /\ section_log' = <<>>
    /\ rag_pc' = "loop"
    /\ UNCHANGED serviceFrame

ServiceNext ==
    \/ ProcessPdf
    \/ RegenerateContentWithFocus
    \/ GenerateBulletsForOutlineItem
    \/ ReturnResults

ServiceSpec == ServiceInit /\ [][ServiceNext]_vars

\* chunk_size > 0 and 0 <= overlap < chunk_size
ValidSettings(settings) ==
    /\ settings.chunk_size > 0
    /\ 0 <= settings.overlap
    /\ settings.overlap < settings.chunk_size

\* C25: when the request of process_pdf has chunk_size > 0 and
\* 0 <= overlap < chunk_size, the chunk_size and overlap the service hands to
\* chunk_text satisfy 0 <= overlap < chunk_size as well.
C25_SettingsStayValid ==
    (svc_op = "process_pdf" /\ ValidSettings(svc_request)) => ValidSettings(chunk_call)

\* C27: what process_pdf produces does not depend on the requests the service
\* took before: after a regenerate_content_with_focus that set a narrative, no
\* bullet of a later process_pdf is text of that narrative.
C27_ProcessPdfIgnoresEarlierRequests ==
    svc_op = "process_pdf" =>
        \A i \in 1..Len(results) :
            \A m \in 1..Len(results[i].bullets) : results[i].bullets[m].body # N1
====
